---------------------------- MODULE Spec2Model ----------------------------
(* A model of the chess rules engine of horrific-chess (src/chess.ts):      *)
(* the ChessBoard object, its move generator, legality filter, attack      *)
(* detector and move executor, driven the way src/play-game.ts drives it.  *)
EXTENDS Integers, Sequences, FiniteSets, TLC

(***************************************************************************)
(* Data model                                                              *)
(***************************************************************************)

\* enum Colour
Colour == {"White", "Black"}

\* enum ChessPieceType
ChessPieceType == {"King", "Queen", "Rook", "Bishop", "Knight", "Pawn"}

\* new ChessPiece(type, colour)
ChessPiece(type, colour) == [type |-> type, colour |-> colour]

\* the JavaScript null stored in an empty square
Null == [type |-> "None", colour |-> "None"]

\* the value of an omitted promotion argument
Undefined == "undefined"

\* new Square(x, y)
Square(x, y) == [x |-> x, y |-> y]

\* new Move(from, to, promotion)
Move(from, to, promotion) == [from |-> from, to |-> to, promotion |-> promotion]

\* ChessPiece.is(colour, type)
is(piece, colour, type) == piece.colour = colour /\ piece.type = type

Coord == 0..7

AllSquares == {Square(x, y) : x \in Coord, y \in Coord}

Opponent(colour) == IF colour = "White" THEN "Black" ELSE "White"

\* Array(8).fill(false)
NoEnPassant == [x \in Coord |-> FALSE]

(***************************************************************************)
(* The ChessBoard object is passed to the operators below as a record `s`  *)
(* holding its fields.                                                     *)
(***************************************************************************)

\* ChessBoard.pieceAt(x, y) for a rank y on the board: a file outside the
\* row reads `undefined`, which the code treats like null.
pieceAt(s, x, y) == IF x \in Coord THEN s.board[y][x] ELSE Null

\* ChessBoard.pieceAt(x, y) raises a TypeError when the rank is off the
\* board (this.board[y] is undefined).
pieceAtThrows(y) == y \notin Coord

\* ChessBoard.setAt(x, y, piece), on the grid
setAt(board, x, y, piece) == [board EXCEPT ![y][x] = piece]

\* ChessBoard.countPieces()
countPieces(s) == Cardinality({sq \in AllSquares : s.board[sq.y][sq.x] # Null})

\* ChessBoard.boardStateHash(): JSON.stringify of exactly these fields
boardStateHash(s) ==
    [board |-> s.board,
     whiteCastleShort |-> s.whiteCastleShort,
     whiteCastleLong |-> s.whiteCastleLong,
     blackCastleShort |-> s.blackCastleShort,
     blackCastleLong |-> s.blackCastleLong,
     whiteEnPassant |-> s.whiteEnPassant,
     blackEnPassant |-> s.blackEnPassant,
     turn |-> s.turn]

(***************************************************************************)
(* Move generator: the candidates of possibleMoves before the legality     *)
(* filter, in the order the code pushes them.                              *)
(***************************************************************************)

\* the forward direction of a pawn (y + 1 for White, y - 1 for Black)
Forward(colour) == IF colour = "White" THEN 1 ELSE -1

\* a start rank that is the one of the other colour
PawnStartRankOfOpponent(colour) == IF colour = "White" THEN 6 ELSE 1

\* the rank from which a pawn may double-step (y == 1 / y == 6)
PawnStartRank(colour) == IF colour = "White" THEN 1 ELSE 6

\* the en-passant array of a colour
enPassantOf(s, colour) ==
    IF colour = "White" THEN s.whiteEnPassant ELSE s.blackEnPassant

\* a pawn on its farthest rank makes possibleMoves read this.board[8] or
\* this.board[-1]: TypeError
pawnThrows(s, x, y) ==
    LET piece == s.board[y][x]
    IN  piece.type = "Pawn" /\ pieceAtThrows(y + Forward(piece.colour))

\* a pawn branch whose double step does not ask for an empty square right
\* ahead
pawnCandidatesJumping(s, x, y, colour) ==
    LET d == Forward(colour)
        enemy == Opponent(colour)
        push == (IF pieceAt(s, x, y + d) = Null THEN <<Square(x, y + d)>> ELSE <<>>)
                \o (IF y = PawnStartRank(colour) /\ pieceAt(s, x, y + 2 * d) = Null
                    THEN <<Square(x, y + 2 * d)>> ELSE <<>>)
        capture(dx) ==
            IF pieceAt(s, x + dx, y + d).colour = enemy
            THEN <<Square(x + dx, y + d)>> ELSE <<>>
        enPassant(dx) ==
            IF /\ is(pieceAt(s, x + dx, y), enemy, "Pawn")
               /\ enPassantOf(s, enemy)[x + dx]
            THEN <<Square(x + dx, y + d)>> ELSE <<>>
    IN  push \o capture(-1) \o capture(1) \o enPassant(-1) \o enPassant(1)

\* the pawn branch of possibleMoves
pawnCandidates(s, x, y, colour) ==
    LET d == Forward(colour)
        enemy == Opponent(colour)
        push ==
            IF pieceAt(s, x, y + d) = Null
            THEN <<Square(x, y + d)>> \o
                 (IF y = PawnStartRank(colour) /\ pieceAt(s, x, y + 2 * d) = Null
                  THEN <<Square(x, y + 2 * d)>> ELSE <<>>)
            ELSE <<>>
        capture(dx) ==
            IF pieceAt(s, x + dx, y + d).colour = enemy
            THEN <<Square(x + dx, y + d)>> ELSE <<>>
        enPassant(dx) ==
            IF /\ is(pieceAt(s, x + dx, y), enemy, "Pawn")
               /\ enPassantOf(s, enemy)[x + dx]
            THEN <<Square(x + dx, y + d)>> ELSE <<>>
    IN  push \o capture(-1) \o capture(1) \o enPassant(-1) \o enPassant(1)

\* one `while` loop of a sliding piece, from square (x, y) (the first
\* square of the ray) in direction (dx, dy)
RECURSIVE ray(_, _, _, _, _, _)
ray(s, colour, x, y, dx, dy) ==
    IF x \notin Coord \/ y \notin Coord THEN <<>>
    ELSE LET piece == pieceAt(s, x, y)
         IN  IF piece.colour = colour THEN <<>>
             ELSE IF piece.colour = Opponent(colour) THEN <<Square(x, y)>>
             ELSE <<Square(x, y)>> \o ray(s, colour, x + dx, y + dy, dx, dy)

\* the four diagonal loops, in the order of the bishop branch
BishopDirs == << <<1, 1>>, <<1, -1>>, <<-1, 1>>, <<-1, -1>> >>

\* the four straight loops, in the order of the rook branch
RookDirs == << <<1, 0>>, <<-1, 0>>, <<0, 1>>, <<0, -1>> >>

\* the eight loops of the queen branch, in its order
QueenDirs == << <<1, 1>>, <<-1, -1>>, <<1, -1>>, <<-1, 1>> >> \o RookDirs

\* the eight jumps of the knight branch, in its order
KnightJumps == << <<-1, -2>>, <<-2, -1>>, <<1, -2>>, <<2, -1>>,
                  <<-1, 2>>, <<-2, 1>>, <<1, 2>>, <<2, 1>> >>

\* the eight steps of the king branch, in its order
KingSteps == << <<1, 1>>, <<1, -1>>, <<-1, 1>>, <<-1, -1>>,
                <<1, 0>>, <<-1, 0>>, <<0, 1>>, <<0, -1>> >>

RECURSIVE Flatten(_)
Flatten(seqs) == IF seqs = <<>> THEN <<>> ELSE Head(seqs) \o Flatten(Tail(seqs))

\* the knight and king (single step) branches of possibleMoves
stepCandidates(s, x, y, colour, steps) ==
    Flatten([i \in 1..Len(steps) |->
        LET tx == x + steps[i][1]
            ty == y + steps[i][2]
        IN  IF tx \in Coord /\ ty \in Coord /\ pieceAt(s, tx, ty).colour # colour
            THEN <<Square(tx, ty)>> ELSE <<>>])

\* a sliding piece that goes one square only
sliderCandidatesOneSquare(s, x, y, colour, dirs) == stepCandidates(s, x, y, colour, dirs)

\* the bishop, rook and queen branches of possibleMoves
sliderCandidates(s, x, y, colour, dirs) ==
    Flatten([i \in 1..Len(dirs) |->
        ray(s, colour, x + dirs[i][1], y + dirs[i][2], dirs[i][1], dirs[i][2])])

\* possibleMoves(x, y, false) for a piece that does not throw
candidates(s, x, y) ==
    LET piece == s.board[y][x]
    IN  CASE piece.type = "Pawn"   -> pawnCandidates(s, x, y, piece.colour)
          [] piece.type = "Bishop" -> sliderCandidates(s, x, y, piece.colour, BishopDirs)
          [] piece.type = "Rook"   -> sliderCandidates(s, x, y, piece.colour, RookDirs)
          [] piece.type = "Queen"  -> sliderCandidates(s, x, y, piece.colour, QueenDirs)
          [] piece.type = "Knight" -> stepCandidates(s, x, y, piece.colour, KnightJumps)
          [] piece.type = "King"   -> stepCandidates(s, x, y, piece.colour, KingSteps)
          [] OTHER -> <<>>

(***************************************************************************)
(* Attack detector.  The result is "true", "false" or "throw".             *)
(***************************************************************************)

\* position of a square in the scan `for y ... for x ...`
ScanIndex(sq) == sq.y * 8 + sq.x

\* the square of a scan that comes first
firstOfScan(squares) ==
    CHOOSE sq \in squares : \A other \in squares : ScanIndex(sq) <= ScanIndex(other)

\* `for (const move of moves)`: one of the destinations holds the king
holdsKing(s, colour, destinations) ==
    \E i \in 1..Len(destinations) :
        is(s.board[destinations[i].y][destinations[i].x], colour, "King")

\* the enemy piece on sq ends the scan: possibleMoves(x, y, false) raises
\* for it, or one of its destinations holds the king
endsScan(s, colour, sq) ==
    /\ s.board[sq.y][sq.x].colour = Opponent(colour)
    /\ \/ pawnThrows(s, sq.x, sq.y)
       \/ holdsKing(s, colour, candidates(s, sq.x, sq.y))

\* the outcome of the scan, given the squares that end it: the first of
\* them decides
scanOutcome(s, deciding) ==
    IF deciding = {} THEN "false"
    ELSE IF pawnThrows(s, firstOfScan(deciding).x, firstOfScan(deciding).y) THEN "throw"
    ELSE "true"

\* whiteInCheck() (colour = "White") and blackInCheck() (colour = "Black")
inCheck(s, colour) ==
    scanOutcome(s, {sq \in AllSquares : endsScan(s, colour, sq)})

whiteInCheck(s) == inCheck(s, "White")

blackInCheck(s) == inCheck(s, "Black")

(***************************************************************************)
(* Legality filter                                                         *)
(***************************************************************************)

\* ChessBoard.pretend(from, to): the grid after the speculative relocation
pretend(board, from, to) ==
    setAt(setAt(board, from.x, from.y, Null), to.x, to.y, board[from.y][from.x])

\* a revert that puts the moved piece back but forgets the captured one
unpretendWithoutCaptured(board, from, to, oldPiece) ==
    setAt(setAt(board, from.x, from.y, board[to.y][to.x]), to.x, to.y, Null)

\* ChessBoard.unpretend(from, to, oldPiece)
unpretend(board, from, to, oldPiece) ==
    setAt(setAt(board, from.x, from.y, board[to.y][to.x]), to.x, to.y, oldPiece)

\* isLegal after the attack detector has answered: nothing catches its
\* error, so a raise leaves the speculative grid behind; otherwise the grid
\* is reverted and !check is returned
isLegalAfterCheck(check, pretended, from, to, oldPiece) ==
    IF check = "throw"
    THEN [ret |-> "throw", board |-> pretended]
    ELSE [ret |-> IF check = "true" THEN "false" ELSE "true",
          board |-> unpretend(pretended, from, to, oldPiece)]

\* ChessBoard.isLegal(xFrom, yFrom, xTo, yTo): ret is "true", "false" or
\* "throw"; board is the grid the call leaves behind.  The detector asked is
\* the one of the side to move (whiteInCheck for White, blackInCheck for
\* Black).
isLegal(s, xFrom, yFrom, xTo, yTo) ==
    isLegalAfterCheck(
        inCheck([s EXCEPT !.board = pretend(s.board, Square(xFrom, yFrom), Square(xTo, yTo))],
                s.turn),
        pretend(s.board, Square(xFrom, yFrom), Square(xTo, yTo)),
        Square(xFrom, yFrom), Square(xTo, yTo), pieceAt(s, xTo, yTo))

\* `!checkCheck || this.isLegal(...)` for one candidate, followed by the
\* rest of the branch: a raise ends the call
keepLegal(square, legal, rest) ==
    IF legal = "throw" THEN [threw |-> TRUE, moves |-> <<>>]
    ELSE [threw |-> rest.threw,
          moves |-> (IF legal = "true" THEN <<square>> ELSE <<>>) \o rest.moves]

\* possibleMoves(x, y, true) applies isLegal to the candidates one after
\* the other
RECURSIVE filterLegal(_, _, _, _)
filterLegal(s, x, y, cand) ==
    IF cand = <<>> THEN [threw |-> FALSE, moves |-> <<>>]
    ELSE keepLegal(Head(cand), isLegal(s, x, y, Head(cand).x, Head(cand).y).ret,
                   filterLegal(s, x, y, Tail(cand)))

\* !c for a condition that is "true", "false" or "throw"
Not3(t) == IF t = "throw" THEN "throw" ELSE IF t = "true" THEN "false" ELSE "true"

\* c && next for conditions that are "true", "false" or "throw"
AndThen(c, next) == IF c = "true" THEN next ELSE c

\* the castling rights of a colour
castleShortOf(s, colour) ==
    IF colour = "White" THEN s.whiteCastleShort ELSE s.blackCastleShort

castleLongOf(s, colour) ==
    IF colour = "White" THEN s.whiteCastleLong ELSE s.blackCastleLong

\* the short-castling condition of the king branch of possibleMoves
\* (checkCheck is true)
castleShortOffered(s, x, y, colour) ==
    IF /\ castleShortOf(s, colour)
       /\ pieceAt(s, x + 1, y) = Null
       /\ pieceAt(s, x + 2, y) = Null
    THEN AndThen(Not3(inCheck(s, colour)),
         AndThen(isLegal(s, x, y, x + 1, y).ret,
                 isLegal(s, x, y, x + 2, y).ret))
    ELSE "false"

\* the long-castling condition of the king branch of possibleMoves
castleLongOffered(s, x, y, colour) ==
    IF /\ castleLongOf(s, colour)
       /\ pieceAt(s, x - 1, y) = Null
       /\ pieceAt(s, x - 2, y) = Null
       /\ pieceAt(s, x - 3, y) = Null
    THEN AndThen(Not3(inCheck(s, colour)),
         AndThen(isLegal(s, x, y, x - 1, y).ret,
         AndThen(isLegal(s, x, y, x - 2, y).ret,
                 isLegal(s, x, y, x - 3, y).ret)))
    ELSE "false"

\* the pushes of the two castling `if`s, given what their conditions gave
castlingPushes(short, long, x, y) ==
    IF short = "throw" \/ long = "throw" THEN [threw |-> TRUE, moves |-> <<>>]
    ELSE [threw |-> FALSE,
          moves |-> (IF short = "true" THEN <<Square(x + 2, y)>> ELSE <<>>)
                    \o (IF long = "true" THEN <<Square(x - 2, y)>> ELSE <<>>)]

\* the two castling `if`s of the king branch
castlingMoves(s, x, y, colour) ==
    castlingPushes(castleShortOffered(s, x, y, colour),
                   castleLongOffered(s, x, y, colour), x, y)

\* the moves of a branch with the castling moves of a king after them
withCastling(plain, piece, castle) ==
    IF plain.threw \/ piece.type # "King" THEN plain
    ELSE [threw |-> castle.threw,
          moves |-> IF castle.threw THEN <<>> ELSE plain.moves \o castle.moves]

\* ChessBoard.possibleMoves(x, y, checkCheck): the destinations in the
\* order pushed (duplicates kept), or threw = TRUE when the call raises.
possibleMoves(s, x, y, checkCheck) ==
    IF x \notin Coord \/ y \notin Coord THEN [threw |-> FALSE, moves |-> <<>>]
    ELSE IF s.board[y][x] = Null THEN [threw |-> FALSE, moves |-> <<>>]
    ELSE IF pawnThrows(s, x, y) THEN [threw |-> TRUE, moves |-> <<>>]
    ELSE IF ~checkCheck THEN [threw |-> FALSE, moves |-> candidates(s, x, y)]
    ELSE withCastling(filterLegal(s, x, y, candidates(s, x, y)), s.board[y][x],
                      castlingMoves(s, x, y, s.board[y][x].colour))

\* the set of destinations of a sequence of squares
Range(seq) == {seq[i] : i \in 1..Len(seq)}

(***************************************************************************)
(* Move executor                                                           *)
(***************************************************************************)

\* "Relocate the piece"
relocate(board, from, to, movedPiece) ==
    setAt(setAt(board, to.x, to.y, movedPiece), from.x, from.y, Null)

\* the castling block of move(): the rook is written to the d- or f-file of
\* the destination rank and the a- or h-file corner is cleared
castleRook(board, movedPiece, xFrom, xTo, yTo) ==
    IF movedPiece.type = "King" /\ xFrom - xTo = 2
    THEN [board |-> setAt(setAt(board, 3, yTo, ChessPiece("Rook", movedPiece.colour)),
                          0, yTo, Null),
          changed |-> <<Square(3, yTo), Square(0, yTo)>>]
    ELSE IF movedPiece.type = "King" /\ xTo - xFrom = 2
    THEN [board |-> setAt(setAt(board, 5, yTo, ChessPiece("Rook", movedPiece.colour)),
                          7, yTo, Null),
          changed |-> <<Square(5, yTo), Square(7, yTo)>>]
    ELSE [board |-> board, changed |-> <<>>]

\* rights derived from the grid: set whenever king and rook stand on their
\* home squares
castlingRightsFromHomeSquares(s, board, movedPiece, xFrom) ==
    [whiteCastleShort |-> is(board[0][4], "White", "King") /\ is(board[0][7], "White", "Rook"),
     whiteCastleLong |-> is(board[0][4], "White", "King") /\ is(board[0][0], "White", "Rook"),
     blackCastleShort |-> is(board[7][4], "Black", "King") /\ is(board[7][7], "Black", "Rook"),
     blackCastleLong |-> is(board[7][4], "Black", "King") /\ is(board[7][0], "Black", "Rook")]

\* a variant in which a king move clears only the short right of its colour
castlingRightsKingClearsShort(s, board, movedPiece, xFrom) ==
    [whiteCastleShort |-> s.whiteCastleShort /\ ~is(movedPiece, "White", "King"),
     whiteCastleLong |-> s.whiteCastleLong,
     blackCastleShort |-> s.blackCastleShort /\ ~is(movedPiece, "Black", "King"),
     blackCastleLong |-> s.blackCastleLong]

\* "Keep track of castling legality": the four rights after the move, given
\* the grid after relocation and castling
castlingRights(s, board, movedPiece, xFrom) ==
    LET ws0 == IF is(movedPiece, "White", "King") THEN FALSE ELSE s.whiteCastleShort
        wl0 == IF is(movedPiece, "White", "King") THEN FALSE ELSE s.whiteCastleLong
        ws1 == IF ws0 /\ is(movedPiece, "White", "Rook") /\ xFrom = 0 /\ board[0][7] = Null
               THEN FALSE ELSE ws0
        wl1 == IF wl0 /\ is(movedPiece, "White", "Rook") /\ xFrom = 7 /\ board[0][0] = Null
               THEN FALSE ELSE wl0
        bs0 == IF is(movedPiece, "Black", "King") THEN FALSE ELSE s.blackCastleShort
        bl0 == IF is(movedPiece, "Black", "King") THEN FALSE ELSE s.blackCastleLong
        bs1 == IF bs0 /\ is(movedPiece, "Black", "Rook") /\ xFrom = 0 /\ board[7][0] = Null
               THEN FALSE ELSE bs0
        bl1 == IF bl0 /\ is(movedPiece, "Black", "Rook") /\ xFrom = 7 /\ board[7][7] = Null
               THEN FALSE ELSE bl0
    IN  [whiteCastleShort |-> ws1, whiteCastleLong |-> wl1,
         blackCastleShort |-> bs1, blackCastleLong |-> bl1]

\* a variant that refills both arrays with false before the double step
\* sets its flag
enPassantFlagsResetBoth(s, movedPiece, xFrom, yFrom, yTo) ==
    [whiteEnPassant |-> IF is(movedPiece, "White", "Pawn") /\ yTo - yFrom = 2
                        THEN [NoEnPassant EXCEPT ![xFrom] = TRUE] ELSE NoEnPassant,
     blackEnPassant |-> IF is(movedPiece, "Black", "Pawn") /\ yFrom - yTo = 2
                        THEN [NoEnPassant EXCEPT ![xFrom] = TRUE] ELSE NoEnPassant]

\* "En passant" flags: the array of the side to move is refilled with
\* false, then a double-stepping pawn sets its origin file in the array of
\* its own colour
enPassantFlags(s, movedPiece, xFrom, yFrom, yTo) ==
    LET w0 == IF s.turn = "White" THEN NoEnPassant ELSE s.whiteEnPassant
        b0 == IF s.turn = "White" THEN s.blackEnPassant ELSE NoEnPassant
        w1 == IF is(movedPiece, "White", "Pawn") /\ yTo - yFrom = 2
              THEN [w0 EXCEPT ![xFrom] = TRUE] ELSE w0
        b1 == IF is(movedPiece, "Black", "Pawn") /\ yFrom - yTo = 2
              THEN [b0 EXCEPT ![xFrom] = TRUE] ELSE b0
    IN  [whiteEnPassant |-> w1, blackEnPassant |-> b1]

\* the two en-passant capture `if`s of move(), evaluated one after the other
enPassantCapture(board, flags, movedPiece, capturedPiece, xFrom, yFrom, xTo) ==
    LET white == /\ is(movedPiece, "White", "Pawn")
                 /\ flags.blackEnPassant[xTo]
                 /\ capturedPiece = Null
                 /\ xTo # xFrom
        black == /\ is(movedPiece, "Black", "Pawn")
                 /\ flags.whiteEnPassant[xTo]
                 /\ capturedPiece = Null
                 /\ xTo # xFrom
    IN  IF white \/ black
        THEN [board |-> setAt(board, xTo, yFrom, Null), changed |-> <<Square(xTo, yFrom)>>]
        ELSE [board |-> board, changed |-> <<>>]

\* the promotion selectors the two `switch (promotion)` blocks act on
PromotionTypes == {"Queen", "Rook", "Bishop", "Knight"}

\* a promotion that makes a queen whatever the selector
promoteToQueen(board, movedPiece, xTo, yTo, promotion) ==
    IF /\ \/ is(movedPiece, "White", "Pawn") /\ yTo = 7
          \/ is(movedPiece, "Black", "Pawn") /\ yTo = 0
       /\ promotion \in PromotionTypes
    THEN setAt(board, xTo, yTo, ChessPiece("Queen", movedPiece.colour))
    ELSE board

\* "Pawn promotion"
promote(board, movedPiece, xTo, yTo, promotion) ==
    IF /\ \/ is(movedPiece, "White", "Pawn") /\ yTo = 7
          \/ is(movedPiece, "Black", "Pawn") /\ yTo = 0
       /\ promotion \in PromotionTypes
    THEN setAt(board, xTo, yTo, ChessPiece(promotion, movedPiece.colour))
    ELSE board

\* the fifty-move clock value at which move() sets fiftyMoveRuleReached
FiftyMoveLimit == 100

\* the occurrence count at which move() sets threefoldRepetition
RepetitionLimit == 3

\* Map.has / Map.get / Map.set on this.history
historyHas(history, key) == key \in DOMAIN history

historySet(history, key, value) ==
    [k \in DOMAIN history \cup {key} |-> IF k = key THEN value ELSE history[k]]

\* what move() hands back: an array of squares, `undefined` (the bare
\* `return` of the fifty-move branch) or a raised TypeError
Returned(changedSquares) == [kind |-> "array", squares |-> changedSquares]

ReturnedUndefined == [kind |-> "undefined", squares |-> <<>>]

Thrown == [kind |-> "throw", squares |-> <<>>]

\* a turn update that counts full moves: the number grows only after Black
updateTurnPerFullMove(s, fromSquare, toSquare, promotion) ==
    [s EXCEPT
       !.turn = IF s.turn = "White" THEN "Black" ELSE "White",
       !.turnNumber = s.turnNumber + (IF s.turn = "Black" THEN 1 ELSE 0),
       !.moves = Append(s.moves, Move(fromSquare, toSquare, promotion))]

\* "Update turn" and "Save the move"
updateTurn(s, fromSquare, toSquare, promotion) ==
    [s EXCEPT
       !.turn = IF s.turn = "White" THEN "Black" ELSE "White",
       !.turnNumber = s.turnNumber + 1,
       !.moves = Append(s.moves, Move(fromSquare, toSquare, promotion))]

\* "Keep track of the 50 move rule": returned is TRUE when the branch leaves
\* move() by its bare `return`
fiftyMoveClock(s, numPiecesBefore, changedSquares) ==
    LET numPiecesAfter == countPieces(s)
        pawnMove == \E i \in 1..Len(changedSquares) :
                        pieceAt(s, changedSquares[i].x, changedSquares[i].y).type = "Pawn"
    IN  IF numPiecesBefore = numPiecesAfter /\ ~pawnMove
        THEN IF s.fiftyMoveRule + 1 >= FiftyMoveLimit
             THEN [obj |-> [s EXCEPT !.fiftyMoveRule = s.fiftyMoveRule + 1,
                                     !.fiftyMoveRuleReached = TRUE],
                   returned |-> TRUE]
             ELSE [obj |-> [s EXCEPT !.fiftyMoveRule = s.fiftyMoveRule + 1],
                   returned |-> FALSE]
        ELSE [obj |-> [s EXCEPT !.fiftyMoveRule = 0], returned |-> FALSE]

\* a repetition count whose flag follows the count of the current position
recordPositionFlagOfCurrent(s) ==
    LET hash == boardStateHash(s)
        count == IF historyHas(s.history, hash) THEN s.history[hash] + 1 ELSE 1
    IN  [s EXCEPT !.history = historySet(s.history, hash, count),
                  !.threefoldRepetition = count >= RepetitionLimit]

\* "Keep track of the three-fold repetition rule"
recordPosition(s) ==
    LET hash == boardStateHash(s)
    IN  IF historyHas(s.history, hash)
        THEN LET count == s.history[hash] + 1
             IN  [s EXCEPT !.history = historySet(s.history, hash, count),
                           !.threefoldRepetition =
                               IF count >= RepetitionLimit THEN TRUE
                               ELSE s.threefoldRepetition]
        ELSE [s EXCEPT !.history = historySet(s.history, hash, 1)]

(***************************************************************************)
(* move() runs its blocks one after the other; each operator below is the  *)
(* call from one block on, given what the blocks before it computed.  obj  *)
(* is the object the call leaves behind, ret what it hands back.           *)
(***************************************************************************)

\* from the end of the fifty-move block on: its bare `return`, or the
\* threefold block and `return changedSquares`
moveFromRepetition(clocked, changedSquares) ==
    IF clocked.returned
    THEN [obj |-> clocked.obj, ret |-> ReturnedUndefined]
    ELSE [obj |-> recordPosition(clocked.obj), ret |-> Returned(changedSquares)]

\* from "Update turn" on
moveFromTurn(placed, numPiecesBefore, changedSquares, fromSquare, toSquare, promotion) ==
    moveFromRepetition(
        fiftyMoveClock(updateTurn(placed, fromSquare, toSquare, promotion),
                       numPiecesBefore, changedSquares),
        changedSquares)

\* from "Pawn promotion" on
moveFromPromotion(s, rights, flags, taken, changedSquares, numPiecesBefore, movedPiece, fromSquare, toSquare, promotion) ==
    moveFromTurn(
        [s EXCEPT
           !.board = promote(taken.board, movedPiece, toSquare.x, toSquare.y, promotion),
           !.whiteCastleShort = rights.whiteCastleShort,
           !.whiteCastleLong = rights.whiteCastleLong,
           !.blackCastleShort = rights.blackCastleShort,
           !.blackCastleLong = rights.blackCastleLong,
           !.whiteEnPassant = flags.whiteEnPassant,
           !.blackEnPassant = flags.blackEnPassant],
        numPiecesBefore, changedSquares \o taken.changed, fromSquare, toSquare, promotion)

\* from the en-passant capture on
moveFromCapture(s, castled, rights, flags, numPiecesBefore, movedPiece, capturedPiece, fromSquare, toSquare, promotion) ==
    moveFromPromotion(
        s, rights, flags,
        enPassantCapture(castled.board, flags, movedPiece, capturedPiece,
                         fromSquare.x, fromSquare.y, toSquare.x),
        <<Square(fromSquare.x, fromSquare.y), Square(toSquare.x, toSquare.y)>>
            \o castled.changed,
        numPiecesBefore, movedPiece, fromSquare, toSquare, promotion)

\* from "Keep track of castling legality" on
moveFromRights(s, castled, numPiecesBefore, movedPiece, capturedPiece, fromSquare, toSquare, promotion) ==
    moveFromCapture(
        s, castled,
        castlingRights(s, castled.board, movedPiece, fromSquare.x),
        enPassantFlags(s, movedPiece, fromSquare.x, fromSquare.y, toSquare.y),
        numPiecesBefore, movedPiece, capturedPiece, fromSquare, toSquare, promotion)

\* from the relocation on: with no piece on the origin square the grid is
\* written and `movedPiece.is` of the castling block raises
moveFromRelocation(s, numPiecesBefore, movedPiece, capturedPiece, fromSquare, toSquare, promotion) ==
    IF movedPiece = Null
    THEN [obj |-> [s EXCEPT !.board = relocate(s.board, fromSquare, toSquare, movedPiece)],
          ret |-> Thrown]
    ELSE moveFromRights(
             s,
             castleRook(relocate(s.board, fromSquare, toSquare, movedPiece), movedPiece,
                        fromSquare.x, toSquare.x, toSquare.y),
             numPiecesBefore, movedPiece, capturedPiece, fromSquare, toSquare, promotion)

\* from the answer of isLegal on: `if (!this.isLegal(...)) return []`
moveFromLegality(s, legal, fromSquare, toSquare, promotion) ==
    IF legal.ret = "throw"
    THEN [obj |-> [s EXCEPT !.board = legal.board], ret |-> Thrown]
    ELSE IF legal.ret = "false"
    THEN [obj |-> [s EXCEPT !.board = legal.board], ret |-> Returned(<<>>)]
    ELSE moveFromRelocation(
             [s EXCEPT !.board = legal.board], countPieces(s),
             legal.board[fromSquare.y][fromSquare.x], legal.board[toSquare.y][toSquare.x],
             fromSquare, toSquare, promotion)

\* ChessBoard.move(fromSquare, toSquare, promotion)
move(s, fromSquare, toSquare, promotion) ==
    moveFromLegality(
        s, isLegal(s, fromSquare.x, fromSquare.y, toSquare.x, toSquare.y),
        fromSquare, toSquare, promotion)

(***************************************************************************)
(* Termination classifier                                                  *)
(***************************************************************************)

\* the square at a position of the scan `for y ... for x ...`
ScanSquare(i) == Square(i % 8, i \div 8)

\* whiteCanMove() / blackCanMove() from position i of the scan on: "true",
\* "false" or "throw".  The scan returns at the first piece of the colour
\* with a destination and raises at the first one whose possibleMoves
\* raises.
RECURSIVE canMoveFrom(_, _, _)
canMoveAfter(s, colour, i, gen) ==
    IF gen.threw THEN "throw"
    ELSE IF Len(gen.moves) > 0 THEN "true"
    ELSE canMoveFrom(s, colour, i + 1)

canMoveFrom(s, colour, i) ==
    IF i >= 64 THEN "false"
    ELSE IF s.board[ScanSquare(i).y][ScanSquare(i).x].colour = colour
    THEN canMoveAfter(s, colour, i,
                      possibleMoves(s, ScanSquare(i).x, ScanSquare(i).y, TRUE))
    ELSE canMoveFrom(s, colour, i + 1)

canMove(s, colour) == canMoveFrom(s, colour, 0)

whiteCanMove(s) == canMove(s, "White")

blackCanMove(s) == canMove(s, "Black")

\* the number of pieces of the given colours and types on the board
CountWhere(s, colours, types) ==
    Cardinality({sq \in AllSquares : /\ s.board[sq.y][sq.x].colour \in colours
                                     /\ s.board[sq.y][sq.x].type \in types})

\* an insufficientMaterial() without the lone-king case
insufficientMaterialNeedsMinor(s) ==
    LET whiteKnights == CountWhere(s, {"White"}, {"Knight"})
        whiteBishops == CountWhere(s, {"White"}, {"Bishop"})
        blackKnights == CountWhere(s, {"Black"}, {"Knight"})
        blackBishops == CountWhere(s, {"Black"}, {"Bishop"})
    IN  IF CountWhere(s, Colour, {"Pawn", "Queen", "Rook"}) > 0 THEN FALSE
        ELSE /\ whiteKnights + whiteBishops = 1
             /\ blackKnights + blackBishops = 1

\* an insufficientMaterial() whose two-knights case does not look at the
\* opponent
insufficientMaterialTwoKnights(s) ==
    LET whiteKnights == CountWhere(s, {"White"}, {"Knight"})
        whiteBishops == CountWhere(s, {"White"}, {"Bishop"})
        blackKnights == CountWhere(s, {"Black"}, {"Knight"})
        blackBishops == CountWhere(s, {"Black"}, {"Bishop"})
    IN  IF CountWhere(s, Colour, {"Pawn", "Queen", "Rook"}) > 0 THEN FALSE
        ELSE /\ \/ whiteBishops = 0 /\ whiteKnights <= 2
                \/ whiteKnights = 0 /\ whiteBishops = 1
             /\ \/ blackBishops = 0 /\ blackKnights <= 2
                \/ blackKnights = 0 /\ blackBishops = 1

\* ChessBoard.insufficientMaterial()
insufficientMaterial(s) ==
    LET whiteKnights == CountWhere(s, {"White"}, {"Knight"})
        whiteBishops == CountWhere(s, {"White"}, {"Bishop"})
        whitePieces == CountWhere(s, {"White"}, ChessPieceType)
        blackKnights == CountWhere(s, {"Black"}, {"Knight"})
        blackBishops == CountWhere(s, {"Black"}, {"Bishop"})
        blackPieces == CountWhere(s, {"Black"}, ChessPieceType)
        whiteInsufficientMaterial ==
            \/ whiteKnights = 0 /\ whiteBishops = 0
            \/ whiteKnights = 1 /\ whiteBishops = 0
            \/ whiteKnights = 0 /\ whiteBishops = 1
            \/ whiteKnights = 2 /\ whiteBishops = 0 /\ blackPieces = 1
        blackInsufficientMaterial ==
            \/ blackKnights = 0 /\ blackBishops = 0
            \/ blackKnights = 1 /\ blackBishops = 0
            \/ blackKnights = 0 /\ blackBishops = 1
            \/ blackKnights = 2 /\ blackBishops = 0 /\ whitePieces = 1
    IN  IF CountWhere(s, Colour, {"Pawn", "Queen", "Rook"}) > 0 THEN FALSE
        ELSE whiteInsufficientMaterial /\ blackInsufficientMaterial

\* an ended() that does not look at threefoldRepetition
endedIgnoringRepetition(s) ==
    IF s.fiftyMoveRuleReached \/ insufficientMaterial(s)
    THEN "true"
    ELSE Not3(canMove(s, s.turn))

\* ChessBoard.ended(): "true", "false" or "throw"
ended(s) ==
    IF s.fiftyMoveRuleReached \/ s.threefoldRepetition \/ insufficientMaterial(s)
    THEN "true"
    ELSE Not3(canMove(s, s.turn))

\* a checkmate test that never finds the king attacked
mateOfUnattacked(s, colour, winner, otherwise) ==
    IF s.turn # colour THEN otherwise
    ELSE IF canMove(s, colour) = "throw" THEN "throw"
    ELSE otherwise

\* `turn == colour && !canMove() && inCheck()` of endReason(): the reason
\* that names the winner, the reason the tests after it give, or "throw"
mateOf(s, colour, winner, otherwise) ==
    IF s.turn # colour THEN otherwise
    ELSE LET can == canMove(s, colour)
         IN  IF can = "throw" THEN "throw"
             ELSE IF can = "true" THEN otherwise
             ELSE LET check == inCheck(s, colour)
                  IN  IF check = "throw" THEN "throw"
                      ELSE IF check = "true" THEN winner
                      ELSE otherwise

\* an endReason() that does not look at threefoldRepetition
endReasonWithoutRepetition(s) ==
    LET over == ended(s)
    IN  IF over = "throw" THEN "throw"
        ELSE IF over = "false" THEN "null"
        ELSE IF insufficientMaterial(s) THEN "Draw by insufficient material"
        ELSE IF s.fiftyMoveRuleReached THEN "Draw by fifty move rule"
        ELSE mateOf(s, "White", "Black wins by checkmate",
                    mateOf(s, "Black", "White wins by checkmate",
                           "Draw by stalemate"))

\* ChessBoard.endReason(): the reason, "null" for null, or "throw"
endReason(s) ==
    LET over == ended(s)
    IN  IF over = "throw" THEN "throw"
        ELSE IF over = "false" THEN "null"
        ELSE IF insufficientMaterial(s) THEN "Draw by insufficient material"
        ELSE IF s.fiftyMoveRuleReached THEN "Draw by fifty move rule"
        ELSE IF s.threefoldRepetition THEN "Draw by threefold repetition"
        ELSE mateOf(s, "White", "Black wins by checkmate",
                    mateOf(s, "Black", "White wins by checkmate",
                           "Draw by stalemate"))

(***************************************************************************)
(* UCI text.  A string is modelled as the sequence of its characters.      *)
(***************************************************************************)

\* String.charCodeAt for the characters of a square name
charCode ==
    [c \in {"a", "b", "c", "d", "e", "f", "g", "h",
            "1", "2", "3", "4", "5", "6", "7", "8"} |->
        CASE c = "a" -> 97 [] c = "b" -> 98 [] c = "c" -> 99 [] c = "d" -> 100
          [] c = "e" -> 101 [] c = "f" -> 102 [] c = "g" -> 103 [] c = "h" -> 104
          [] c = "1" -> 49 [] c = "2" -> 50 [] c = "3" -> 51 [] c = "4" -> 52
          [] c = "5" -> 53 [] c = "6" -> 54 [] c = "7" -> 55 [] c = "8" -> 56]

\* String.fromCharCode
fromCharCode(n) == CHOOSE c \in DOMAIN charCode : charCode[c] = n

\* Square.fromString(str)
fromString(str) ==
    Square(charCode[str[1]] - charCode["a"], charCode[str[2]] - charCode["1"])

\* Square.toString(): the file letter and the digit of y + 1
squareToString(sq) ==
    <<fromCharCode(charCode["a"] + sq.x), fromCharCode(charCode["1"] + sq.y)>>

\* a Move.toString() that leaves the promotion letter out
moveToStringWithoutPromotion(mv) == squareToString(mv.from) \o squareToString(mv.to)

\* Move.toString()
moveToString(mv) ==
    squareToString(mv.from) \o squareToString(mv.to) \o
    (CASE mv.promotion = "Queen" -> <<"q">>
       [] mv.promotion = "Rook" -> <<"r">>
       [] mv.promotion = "Bishop" -> <<"b">>
       [] mv.promotion = "Knight" -> <<"n">>
       [] OTHER -> <<>>)

\* the `switch (uci.slice(4, 5))` of performUCIMove
promotionOf(uci) ==
    IF Len(uci) < 5 THEN Undefined
    ELSE CASE uci[5] = "q" -> "Queen"
           [] uci[5] = "r" -> "Rook"
           [] uci[5] = "b" -> "Bishop"
           [] uci[5] = "n" -> "Knight"
           [] OTHER -> Undefined

\* ChessBoard.performUCIMove(uci)
performUCIMove(s, uci) ==
    move(s, fromString(SubSeq(uci, 1, 2)), fromString(SubSeq(uci, 3, 4)), promotionOf(uci))

(***************************************************************************)
(* State: the fields of the one ChessBoard of a game, and what the last    *)
(* call on it handed back.                                                 *)
(***************************************************************************)

VARIABLES
    board,                  \* ChessBoard.board, indexed [y][x]
    whiteCastleShort,
    whiteCastleLong,
    blackCastleShort,
    blackCastleLong,
    whiteEnPassant,
    blackEnPassant,
    turn,
    turnNumber,
    moves,
    fiftyMoveRule,
    fiftyMoveRuleReached,
    history,
    threefoldRepetition,
    last,                   \* the last call: its name and what it handed back
    prev,                   \* the fields as they were when the last call began
    offeredOnly,            \* every move applied so far was one the generator offered
    occurred                \* how many times the game was in each position, the first included

fields == <<board, whiteCastleShort, whiteCastleLong, blackCastleShort,
            blackCastleLong, whiteEnPassant, blackEnPassant, turn, turnNumber,
            moves, fiftyMoveRule, fiftyMoveRuleReached, history,
            threefoldRepetition>>

vars == <<fields, last, prev, offeredOnly, occurred>>

\* the ChessBoard object of the current state
This ==
    [board |-> board,
     whiteCastleShort |-> whiteCastleShort,
     whiteCastleLong |-> whiteCastleLong,
     blackCastleShort |-> blackCastleShort,
     blackCastleLong |-> blackCastleLong,
     whiteEnPassant |-> whiteEnPassant,
     blackEnPassant |-> blackEnPassant,
     turn |-> turn,
     turnNumber |-> turnNumber,
     moves |-> moves,
     fiftyMoveRule |-> fiftyMoveRule,
     fiftyMoveRuleReached |-> fiftyMoveRuleReached,
     history |-> history,
     threefoldRepetition |-> threefoldRepetition]

\* the next state holds the object obj
Becomes(obj) ==
    /\ board' = obj.board
    /\ whiteCastleShort' = obj.whiteCastleShort
    /\ whiteCastleLong' = obj.whiteCastleLong
    /\ blackCastleShort' = obj.blackCastleShort
    /\ blackCastleLong' = obj.blackCastleLong
    /\ whiteEnPassant' = obj.whiteEnPassant
    /\ blackEnPassant' = obj.blackEnPassant
    /\ turn' = obj.turn
    /\ turnNumber' = obj.turnNumber
    /\ moves' = obj.moves
    /\ fiftyMoveRule' = obj.fiftyMoveRule
    /\ fiftyMoveRuleReached' = obj.fiftyMoveRuleReached
    /\ history' = obj.history
    /\ threefoldRepetition' = obj.threefoldRepetition

\* the back rank of generateDefault(), files a to h
BackRank == <<"Rook", "Knight", "Bishop", "Queen", "King", "Bishop", "Knight", "Rook">>

\* ChessBoard.generateDefault(): the grid
DefaultGrid ==
    [y \in Coord |-> [x \in Coord |->
        CASE y = 0 -> ChessPiece(BackRank[x + 1], "White")
          [] y = 1 -> ChessPiece("Pawn", "White")
          [] y = 6 -> ChessPiece("Pawn", "Black")
          [] y = 7 -> ChessPiece(BackRank[x + 1], "Black")
          [] OTHER -> Null]]

\* the ChessBoard constructor followed by generateDefault()
generateDefault ==
    [board |-> DefaultGrid,
     whiteCastleShort |-> TRUE,
     whiteCastleLong |-> TRUE,
     blackCastleShort |-> TRUE,
     blackCastleLong |-> TRUE,
     whiteEnPassant |-> NoEnPassant,
     blackEnPassant |-> NoEnPassant,
     turn |-> "White",
     turnNumber |-> 0,
     moves |-> <<>>,
     fiftyMoveRule |-> 0,
     fiftyMoveRuleReached |-> FALSE,
     history |-> <<>>,
     threefoldRepetition |-> FALSE]

\* the record of a call of move(from, to, promotion), of who made it and of
\* what it handed back
MoveResult(caller, from, to, promotion, ret) ==
    [op |-> "move", caller |-> caller, from |-> from, to |-> to,
     promotion |-> promotion, kind |-> ret.kind, squares |-> ret.squares]

NoCall == [op |-> "new", caller |-> "playGame", kind |-> "none"]

Init ==
    /\ board = generateDefault.board
    /\ whiteCastleShort = generateDefault.whiteCastleShort
    /\ whiteCastleLong = generateDefault.whiteCastleLong
    /\ blackCastleShort = generateDefault.blackCastleShort
    /\ blackCastleLong = generateDefault.blackCastleLong
    /\ whiteEnPassant = generateDefault.whiteEnPassant
    /\ blackEnPassant = generateDefault.blackEnPassant
    /\ turn = generateDefault.turn
    /\ turnNumber = generateDefault.turnNumber
    /\ moves = generateDefault.moves
    /\ fiftyMoveRule = generateDefault.fiftyMoveRule
    /\ fiftyMoveRuleReached = generateDefault.fiftyMoveRuleReached
    /\ history = generateDefault.history
    /\ threefoldRepetition = generateDefault.threefoldRepetition
    /\ last = NoCall
    /\ prev = generateDefault
    /\ offeredOnly = TRUE
    /\ occurred = historySet(<<>>, boardStateHash(generateDefault), 1)

(***************************************************************************)
(* The evaluator of src/play-game.ts picks one of the legal moves.  Its     *)
(* choice is an input: here it picks freely for the first MaxFree plies of  *)
(* a game and at the end of a game of Book, and otherwise follows one of    *)
(* the games of Book.                                                      *)
(***************************************************************************)

Book ==
    {\* e2e4 a7a5 e4e5 a8a6 e1e2 a6b6 e2f3 b6b5 f3g4 b8c6 g4h5 d7d5 ... (14 plies, ending  g4h5 d7d5 e5d6 b5h5)
     << <<"e", "2", "e", "4">>, <<"a", "7", "a", "5">>, <<"e", "4", "e", "5">>, <<"a", "8", "a", "6">>,
       <<"e", "1", "e", "2">>, <<"a", "6", "b", "6">>, <<"e", "2", "f", "3">>, <<"b", "6", "b", "5">>,
       <<"f", "3", "g", "4">>, <<"b", "8", "c", "6">>, <<"g", "4", "h", "5">>, <<"d", "7", "d", "5">>,
       <<"e", "5", "d", "6">>, <<"b", "5", "h", "5">>>>,
     \* e2e4 h7h6 e4e5 d7d5 e5d6
     << <<"e", "2", "e", "4">>, <<"h", "7", "h", "6">>, <<"e", "4", "e", "5">>, <<"d", "7", "d", "5">>,
       <<"e", "5", "d", "6">>>>,
     \* e2e4 e7e5 g1f3 g8f6 f1c4 f8c5 e1g1 e8g8
     << <<"e", "2", "e", "4">>, <<"e", "7", "e", "5">>, <<"g", "1", "f", "3">>, <<"g", "8", "f", "6">>,
       <<"f", "1", "c", "4">>, <<"f", "8", "c", "5">>, <<"e", "1", "g", "1">>, <<"e", "8", "g", "8">>>>,
     \* d2d4 d7d5 b1c3 b8c6 c1f4 c8f5 d1d2 d8d7 e1c1 e8c8
     << <<"d", "2", "d", "4">>, <<"d", "7", "d", "5">>, <<"b", "1", "c", "3">>, <<"b", "8", "c", "6">>,
       <<"c", "1", "f", "4">>, <<"c", "8", "f", "5">>, <<"d", "1", "d", "2">>, <<"d", "8", "d", "7">>,
       <<"e", "1", "c", "1">>, <<"e", "8", "c", "8">>>>,
     \* d2d4 b8c6 b1c3 c6a5 c1f4 a5c4 d1d2 c4a3
     << <<"d", "2", "d", "4">>, <<"b", "8", "c", "6">>, <<"b", "1", "c", "3">>, <<"c", "6", "a", "5">>,
       <<"c", "1", "f", "4">>, <<"a", "5", "c", "4">>, <<"d", "1", "d", "2">>, <<"c", "4", "a", "3">>>>,
     \* g2g3 b7b6 f1g2 c8a6 g1f3 h7h6 e2e3 h6h5
     << <<"g", "2", "g", "3">>, <<"b", "7", "b", "6">>, <<"f", "1", "g", "2">>, <<"c", "8", "a", "6">>,
       <<"g", "1", "f", "3">>, <<"h", "7", "h", "6">>, <<"e", "2", "e", "3">>, <<"h", "6", "h", "5">>>>,
     \* e2e4 e7e5 e1e2 e8e7 e2e1 e7e8
     << <<"e", "2", "e", "4">>, <<"e", "7", "e", "5">>, <<"e", "1", "e", "2">>, <<"e", "8", "e", "7">>,
       <<"e", "2", "e", "1">>, <<"e", "7", "e", "8">>>>,
     \* e2e4 a7a6 e4e5 a6a5 e1e2 a5a4 e2e3 a4a3 e3e4 d7d5
     << <<"e", "2", "e", "4">>, <<"a", "7", "a", "6">>, <<"e", "4", "e", "5">>, <<"a", "6", "a", "5">>,
       <<"e", "1", "e", "2">>, <<"a", "5", "a", "4">>, <<"e", "2", "e", "3">>, <<"a", "4", "a", "3">>,
       <<"e", "3", "e", "4">>, <<"d", "7", "d", "5">>>>,
     \* d2d3 b7b5 b1c3 b5b4 g1f3 b4c3 h2h3 c7c5
     << <<"d", "2", "d", "3">>, <<"b", "7", "b", "5">>, <<"b", "1", "c", "3">>, <<"b", "5", "b", "4">>,
       <<"g", "1", "f", "3">>, <<"b", "4", "c", "3">>, <<"h", "2", "h", "3">>, <<"c", "7", "c", "5">>>>,
     \* f2f3 e7e5 g2g4 d8h4
     << <<"f", "2", "f", "3">>, <<"e", "7", "e", "5">>, <<"g", "2", "g", "4">>, <<"d", "8", "h", "4">>>>,
     \* g1f3 g8f6 f3g1 f6g8 g1f3 g8f6 f3g1 f6g8 g1f3
     << <<"g", "1", "f", "3">>, <<"g", "8", "f", "6">>, <<"f", "3", "g", "1">>, <<"f", "6", "g", "8">>,
       <<"g", "1", "f", "3">>, <<"g", "8", "f", "6">>, <<"f", "3", "g", "1">>, <<"f", "6", "g", "8">>,
       <<"g", "1", "f", "3">>>>,
     \* h2h4 g7g5 h4g5 h7h6 g5h6 g8f6 h6h7 h8g8
     << <<"h", "2", "h", "4">>, <<"g", "7", "g", "5">>, <<"h", "4", "g", "5">>, <<"h", "7", "h", "6">>,
       <<"g", "5", "h", "6">>, <<"g", "8", "f", "6">>, <<"h", "6", "h", "7">>, <<"h", "8", "g", "8">>>>,
     \* e2e3 a7a5 d1h5 a8a6 h5a5 h7h5 h2h4 a6h6 a5c7 f7f6 c7d7 e8f7 ... (19 plies, ending  d3h7 b8c8 f7g6 c8e6)
     << <<"e", "2", "e", "3">>, <<"a", "7", "a", "5">>, <<"d", "1", "h", "5">>, <<"a", "8", "a", "6">>,
       <<"h", "5", "a", "5">>, <<"h", "7", "h", "5">>, <<"h", "2", "h", "4">>, <<"a", "6", "h", "6">>,
       <<"a", "5", "c", "7">>, <<"f", "7", "f", "6">>, <<"c", "7", "d", "7">>, <<"e", "8", "f", "7">>,
       <<"d", "7", "b", "7">>, <<"d", "8", "d", "3">>, <<"b", "7", "b", "8">>, <<"d", "3", "h", "7">>,
       <<"b", "8", "c", "8">>, <<"f", "7", "g", "6">>, <<"c", "8", "e", "6">>>>,
     \* g2g4 g8f6 d2d4 f6g4 g1f3 g4f2 e1f2 h7h6 c1h6 g7h6 f2g1 h8h7 ... (49 plies, ending  b8d7 b7c8 c3b2 c8d7)
     << <<"g", "2", "g", "4">>, <<"g", "8", "f", "6">>, <<"d", "2", "d", "4">>, <<"f", "6", "g", "4">>,
       <<"g", "1", "f", "3">>, <<"g", "4", "f", "2">>, <<"e", "1", "f", "2">>, <<"h", "7", "h", "6">>,
       <<"c", "1", "h", "6">>, <<"g", "7", "h", "6">>, <<"f", "2", "g", "1">>, <<"h", "8", "h", "7">>,
       <<"d", "1", "d", "2">>, <<"c", "7", "c", "6">>, <<"d", "2", "h", "6">>, <<"f", "8", "h", "6">>,
       <<"b", "1", "c", "3">>, <<"d", "8", "b", "6">>, <<"c", "3", "a", "4">>, <<"b", "6", "d", "4">>,
       <<"f", "3", "d", "4">>, <<"h", "6", "g", "7">>, <<"d", "4", "c", "6">>, <<"g", "7", "b", "2">>,
       <<"c", "6", "a", "7">>, <<"b", "2", "a", "1">>, <<"a", "7", "c", "8">>, <<"h", "7", "h", "2">>,
       <<"h", "1", "h", "2">>, <<"a", "8", "a", "4">>, <<"c", "8", "e", "7">>, <<"a", "4", "a", "2">>,
       <<"c", "2", "c", "3">>, <<"a", "1", "c", "3">>, <<"h", "2", "f", "2">>, <<"a", "2", "e", "2">>,
       <<"f", "1", "e", "2">>, <<"e", "8", "e", "7">>, <<"f", "2", "f", "7">>, <<"e", "7", "d", "6">>,
       <<"f", "7", "d", "7">>, <<"b", "8", "d", "7">>, <<"e", "2", "f", "3">>, <<"d", "7", "b", "8">>,
       <<"f", "3", "b", "7">>, <<"b", "8", "d", "7">>, <<"b", "7", "c", "8">>, <<"c", "3", "b", "2">>,
       <<"c", "8", "d", "7">>>>,
     \* h2h4 a7a5 h1h3 a5a4 g1f3 a4a3 e2e3 b7b6 f1e2 b6b5
     << <<"h", "2", "h", "4">>, <<"a", "7", "a", "5">>, <<"h", "1", "h", "3">>, <<"a", "5", "a", "4">>,
       <<"g", "1", "f", "3">>, <<"a", "4", "a", "3">>, <<"e", "2", "e", "3">>, <<"b", "7", "b", "6">>,
       <<"f", "1", "e", "2">>, <<"b", "6", "b", "5">>>>,
     \* e2e4 g8f6 g1f3 f6g8 f1e2 g8h6 b1a3 h6g8 a3c4 g8f6 c4e3 f6g8 ... (101 plies, ending  a6b8 f3h4 b8a6 e1g1)
     << <<"e", "2", "e", "4">>, <<"g", "8", "f", "6">>, <<"g", "1", "f", "3">>, <<"f", "6", "g", "8">>,
       <<"f", "1", "e", "2">>, <<"g", "8", "h", "6">>, <<"b", "1", "a", "3">>, <<"h", "6", "g", "8">>,
       <<"a", "3", "c", "4">>, <<"g", "8", "f", "6">>, <<"c", "4", "e", "3">>, <<"f", "6", "g", "8">>,
       <<"f", "3", "h", "4">>, <<"b", "8", "c", "6">>, <<"e", "3", "f", "1">>, <<"c", "6", "b", "8">>,
       <<"h", "4", "f", "3">>, <<"g", "8", "h", "6">>, <<"f", "1", "e", "3">>, <<"b", "8", "a", "6">>,
       <<"e", "3", "f", "1">>, <<"h", "6", "g", "8">>, <<"f", "1", "e", "3">>, <<"g", "8", "f", "6">>,
       <<"e", "3", "c", "4">>, <<"f", "6", "g", "8">>, <<"c", "4", "a", "3">>, <<"g", "8", "f", "6">>,
       <<"f", "3", "g", "1">>, <<"a", "6", "b", "8">>, <<"g", "1", "h", "3">>, <<"b", "8", "a", "6">>,
       <<"a", "3", "c", "4">>, <<"a", "6", "b", "8">>, <<"c", "4", "e", "3">>, <<"f", "6", "g", "8">>,
       <<"h", "3", "f", "4">>, <<"g", "8", "f", "6">>, <<"e", "3", "c", "4">>, <<"f", "6", "g", "8">>,
       <<"f", "4", "h", "3">>, <<"g", "8", "h", "6">>, <<"h", "3", "f", "4">>, <<"b", "8", "c", "6">>,
       <<"c", "4", "a", "3">>, <<"c", "6", "b", "8">>, <<"f", "4", "h", "3">>, <<"h", "6", "g", "8">>,
       <<"h", "3", "f", "4">>, <<"b", "8", "a", "6">>, <<"f", "4", "h", "3">>, <<"g", "8", "h", "6">>,
       <<"h", "3", "g", "1">>, <<"h", "6", "g", "8">>, <<"a", "3", "c", "4">>, <<"g", "8", "f", "6">>,
       <<"c", "4", "e", "3">>, <<"a", "6", "b", "8">>, <<"e", "3", "f", "1">>, <<"b", "8", "c", "6">>,
       <<"f", "1", "g", "3">>, <<"c", "6", "b", "8">>, <<"g", "1", "h", "3">>, <<"b", "8", "c", "6">>,
       <<"h", "3", "f", "4">>, <<"f", "6", "g", "8">>, <<"f", "4", "h", "3">>, <<"g", "8", "h", "6">>,
       <<"h", "3", "g", "1">>, <<"c", "6", "b", "8">>, <<"g", "1", "f", "3">>, <<"b", "8", "c", "6">>,
       <<"f", "3", "h", "4">>, <<"c", "6", "b", "8">>, <<"g", "3", "f", "1">>, <<"b", "8", "a", "6">>,
       <<"f", "1", "g", "3">>, <<"h", "6", "g", "8">>, <<"g", "3", "f", "1">>, <<"g", "8", "f", "6">>,
       <<"h", "4", "f", "3">>, <<"a", "6", "b", "8">>, <<"f", "3", "d", "4">>, <<"b", "8", "c", "6">>,
       <<"d", "4", "b", "3">>, <<"f", "6", "g", "8">>, <<"b", "3", "d", "4">>, <<"g", "8", "h", "6">>,
       <<"f", "1", "e", "3">>, <<"c", "6", "b", "8">>, <<"e", "3", "g", "4">>, <<"b", "8", "a", "6">>,
       <<"g", "4", "e", "3">>, <<"h", "6", "g", "8">>, <<"e", "3", "c", "4">>, <<"g", "8", "h", "6">>,
       <<"d", "4", "f", "3">>, <<"a", "6", "b", "8">>, <<"f", "3", "h", "4">>, <<"b", "8", "a", "6">>,
       <<"e", "1", "g", "1">>>>}

\* plies the evaluator picks freely at the start of a game
MaxFree == 1

\* `this.moves.map(move => move.toString())`
uciMoves(s) == [i \in 1..Len(s.moves) |-> moveToString(s.moves[i])]

\* Array.join(' '): the strings in order with one space between neighbours
RECURSIVE join(_)
join(strings) ==
    IF Len(strings) = 0 THEN <<>>
    ELSE IF Len(strings) = 1 THEN strings[1]
    ELSE join(SubSeq(strings, 1, Len(strings) - 1)) \o <<" ">> \o strings[Len(strings)]

\* ChessBoard.boardStateUCI()
boardStateUCI(s) == join(uciMoves(s))

\* the first n moves of a game
Prefix(game, n) == SubSeq(game, 1, n)

\* the UCI strings of the destinations gen that possibleMoves(x, y, true)
\* offers to the piece on sq, for the side to move; for a pawn move to the
\* farthest rank the string has one of the four promotion letters or none
OfferedTo(s, sq, piece, gen) ==
    IF piece.colour # s.turn \/ gen.threw THEN {}
    ELSE UNION {LET to == gen.moves[i]
                    promoting == piece.type = "Pawn"
                                 /\ pieceAtThrows(to.y + Forward(piece.colour))
                IN  {moveToString(Move(sq, to, promotion)) :
                         promotion \in IF promoting
                                       THEN PromotionTypes \cup {Undefined}
                                       ELSE {Undefined}}
                : i \in 1..Len(gen.moves)}

\* the UCI strings of the moves offered to the pieces of the side to move
OfferedUCI(s) ==
    UNION {OfferedTo(s, sq, s.board[sq.y][sq.x], possibleMoves(s, sq.x, sq.y, TRUE))
           : sq \in AllSquares}

\* the call of possibleMoves returned and its array holds the square
Offers(gen, to) == ~gen.threw /\ to \in Range(gen.moves)

\* possibleMoves(x, y, true) offers the square to a piece of the side to move
IsOfferedSquare(s, from, to) ==
    /\ s.board[from.y][from.x].colour = s.turn
    /\ Offers(possibleMoves(s, from.x, from.y, TRUE), to)

\* possibleMoves(x, y, true) offers the move of the UCI string to a piece of
\* the side to move
IsOffered(s, uci) ==
    IsOfferedSquare(s, fromString(SubSeq(uci, 1, 2)), fromString(SubSeq(uci, 3, 4)))

\* the moves the evaluator may pick after the moves played so far
ChoicesAfter(s, played) ==
    IF Len(played) < MaxFree \/ played \in Book
    THEN OfferedUCI(s)
    ELSE {uci \in {game[Len(played) + 1] :
                      game \in {g \in Book : /\ Len(g) > Len(played)
                                             /\ Prefix(g, Len(played)) = played}} :
             IsOffered(s, uci)}

\* the moves the evaluator may pick in the current state
EvaluatorChoices(s) == ChoicesAfter(s, uciMoves(s))

\* a call raised an error that nothing in the repository catches
Crashed == last.kind = "throw"

\* the position is reached once more
Occurs(seen, position) ==
    historySet(seen, position,
               IF historyHas(seen, position) THEN seen[position] + 1 ELSE 1)

\* a call of move(from, to, promotion) ends: the object is as the call left
\* it and the call is on record; a move that was applied brings the game to
\* a position
MoveHandsBack(done, caller, from, to, promotion) ==
    /\ Becomes(done.obj)
    /\ last' = MoveResult(caller, from, to, promotion, done.ret)
    /\ prev' = This
    /\ occurred' = IF done.obj.turnNumber = turnNumber THEN occurred
                   ELSE Occurs(occurred, boardStateHash(done.obj))

\* one round of playGame(): the board is the one playGame() made and only
\* it has used, the game has not ended, the evaluator names a legal move and
\* board.performUCIMove applies it
PlayGame ==
    /\ ~Crashed
    /\ last.caller = "playGame"
    /\ ended(This) = "false"
    /\ \E uci \in EvaluatorChoices(This) :
         /\ MoveHandsBack(performUCIMove(This, uci), "playGame",
                          fromString(SubSeq(uci, 1, 2)),
                          fromString(SubSeq(uci, 3, 4)), promotionOf(uci))
         /\ offeredOnly' = offeredOnly

\* the points of a game at which another caller than playGame() uses the
\* board, once: before the first move and at the end of a game of Book
CallPoint(s) ==
    /\ uciMoves(s) \in Book \cup {<<>>}
    /\ last.caller = "playGame"

\* the squares and promotion selectors such a caller passes to isLegal and
\* move: a1, c1, e1, f1, g1, a7, e7, e8 and g8
CallSquares ==
    {Square(0, 0), Square(2, 0), Square(4, 0), Square(5, 0), Square(6, 0),
     Square(0, 6), Square(4, 6), Square(4, 7), Square(6, 7)}

CallPromotions == {Undefined, "Queen"}

\* a call of isLegal ends: only the grid can differ
IsLegalHandsBack(done) ==
    /\ board' = done.board
    /\ last' = [op |-> "isLegal", caller |-> "other", kind |-> done.ret]
    /\ prev' = This
    /\ offeredOnly' = (done.ret # "throw")
    /\ UNCHANGED <<whiteCastleShort, whiteCastleLong, blackCastleShort,
                   blackCastleLong, whiteEnPassant, blackEnPassant, turn,
                   turnNumber, moves, fiftyMoveRule, fiftyMoveRuleReached,
                   history, threefoldRepetition, occurred>>

\* a direct call of isLegal(from.x, from.y, to.x, to.y)
IsLegalCall ==
    /\ ~Crashed
    /\ offeredOnly
    /\ CallPoint(This)
    /\ \E from \in CallSquares, to \in CallSquares :
         IsLegalHandsBack(isLegal(This, from.x, from.y, to.x, to.y))

\* the game stays one of offered moves after a direct call of move(): the
\* call did not raise, and the move it applied, if any, was offered
StaysOffered(done, from, to) ==
    /\ done.ret.kind # "throw"
    /\ done.obj.turnNumber # turnNumber => IsOfferedSquare(This, from, to)

\* a direct call of move() ends
MoveCallHandsBack(done, from, to, promotion) ==
    /\ MoveHandsBack(done, "other", from, to, promotion)
    /\ offeredOnly' = StaysOffered(done, from, to)

\* a direct call of move(from, to, promotion) with any squares
MoveCall ==
    /\ ~Crashed
    /\ offeredOnly
    /\ CallPoint(This)
    /\ \E from \in CallSquares, to \in CallSquares, promotion \in CallPromotions :
         MoveCallHandsBack(move(This, from, to, promotion), from, to, promotion)

Next == PlayGame \/ IsLegalCall \/ MoveCall

Spec == Init /\ [][Next]_vars

(***************************************************************************)
(* A caller that sets up a position by hand: ChessBoard.empty(), setAt for *)
(* each piece, the turn field, and then the questions about the end of the *)
(* game.                                                                   *)
(***************************************************************************)

\* ChessBoard.empty()
empty == [generateDefault EXCEPT !.board = [y \in Coord |-> [x \in Coord |-> Null]]]

\* the board after setAt(sq.x, sq.y, piece)
withPiece(s, sq, piece) == [s EXCEPT !.board = setAt(s.board, sq.x, sq.y, piece)]

\* one white king and one black king on an otherwise empty board, for
\* either side to move
KingsOnlyBoards ==
    {[withPiece(withPiece(empty, kings[1], ChessPiece("King", "White")),
                kings[2], ChessPiece("King", "Black"))
        EXCEPT !.turn = colour] :
     kings \in {pair \in AllSquares \X AllSquares : pair[1] # pair[2]},
     colour \in Colour}

\* the number of squares the caller fills beside the kings
MaxMinor == 3

\* those squares: a3, b3, c3, ...
MinorSquares == {ScanSquare(16 + i) : i \in 0..(MaxMinor - 1)}

\* what the caller puts on them
MinorChoices ==
    {Null, ChessPiece("Knight", "White"), ChessPiece("Bishop", "White"),
     ChessPiece("Knight", "Black"), ChessPiece("Bishop", "Black"),
     ChessPiece("Pawn", "White"), ChessPiece("Queen", "Black"),
     ChessPiece("Rook", "White")}

\* the kings on e1 and e8 and the grid with the squares filled as chosen
withMinors(chosen) ==
    [empty EXCEPT !.board =
        [y \in Coord |-> [x \in Coord |->
            IF Square(x, y) \in MinorSquares THEN chosen[Square(x, y)]
            ELSE IF Square(x, y) = Square(4, 0) THEN ChessPiece("King", "White")
            ELSE IF Square(x, y) = Square(4, 7) THEN ChessPiece("King", "Black")
            ELSE Null]]]

MinorBoards == {withMinors(chosen) : chosen \in [MinorSquares -> MinorChoices]}

\* the object is the one the caller set up
StartsAs(s) ==
    /\ board = s.board
    /\ whiteCastleShort = s.whiteCastleShort
    /\ whiteCastleLong = s.whiteCastleLong
    /\ blackCastleShort = s.blackCastleShort
    /\ blackCastleLong = s.blackCastleLong
    /\ whiteEnPassant = s.whiteEnPassant
    /\ blackEnPassant = s.blackEnPassant
    /\ turn = s.turn
    /\ turnNumber = s.turnNumber
    /\ moves = s.moves
    /\ fiftyMoveRule = s.fiftyMoveRule
    /\ fiftyMoveRuleReached = s.fiftyMoveRuleReached
    /\ history = s.history
    /\ threefoldRepetition = s.threefoldRepetition
    /\ last = NoCall
    /\ prev = s
    /\ offeredOnly = TRUE
    /\ occurred = historySet(<<>>, boardStateHash(s), 1)

InitSetUp == \E s \in KingsOnlyBoards \cup MinorBoards : StartsAs(s)

\* a call that only answers: the object stays as it is and the answer is
\* on record
Answers(op, answer) ==
    /\ last' = [op |-> op, caller |-> "other", kind |-> answer]
    /\ prev' = This
    /\ UNCHANGED <<fields, offeredOnly, occurred>>

\* a call of insufficientMaterial()
InsufficientMaterialCall ==
    Answers("insufficientMaterial",
            IF insufficientMaterial(This) THEN "true" ELSE "false")

\* a call of ended()
EndedCall == Answers("ended", ended(This))

\* a call of endReason()
EndReasonCall == Answers("endReason", endReason(This))

NextSetUp == InsufficientMaterialCall \/ EndedCall \/ EndReasonCall

SpecSetUp == InitSetUp /\ [][NextSetUp]_vars

(***************************************************************************)
(* Vocabulary of the properties                                            *)
(***************************************************************************)

\* the last call was move() and it applied its move
AppliedMove ==
    /\ last.op = "move"
    /\ \/ last.kind = "undefined"
       \/ last.kind = "array" /\ last.squares # <<>>

\* the last call was move() and it handed back an empty array, leaving
\* every field as it was
RejectedMove ==
    /\ last.op = "move"
    /\ last.kind = "array"
    /\ last.squares = <<>>
    /\ This = prev

\* what isLegal answered, before the last call, for the squares of that call
LegalBefore == isLegal(prev, last.from.x, last.from.y, last.to.x, last.to.y).ret

\* the squares holding the king of a colour
KingSquares(s, colour) ==
    {sq \in AllSquares : is(s.board[sq.y][sq.x], colour, "King")}

\* the home square of the king of a colour (e1, e8)
KingHome(colour) == Square(4, IF colour = "White" THEN 0 ELSE 7)

\* the last call moved a king of the side to move two files along its rank
KingTwoFiles ==
    /\ last.op = "move"
    /\ is(prev.board[last.from.y][last.from.x], prev.turn, "King")
    /\ last.to.y = last.from.y
    /\ last.to.x - last.from.x \in {2, -2}

\* the files the king crosses and lands on in the last call
KingPath ==
    IF last.to.x > last.from.x
    THEN {last.from.x + 1, last.from.x + 2}
    ELSE {last.from.x - 1, last.from.x - 2}

(***************************************************************************)
(* C1                                                                      *)
(***************************************************************************)

\* C1: in a game in which only moves offered by possibleMoves(x, y, true)
\* were applied, the king of the side that just moved is not attacked
\* after the move.
C1_OfferedMoveKeepsOwnKingSafe ==
    (offeredOnly /\ AppliedMove) => inCheck(This, prev.turn) = "false"

(***************************************************************************)
(* C2                                                                      *)
(***************************************************************************)

\* C2: a call of isLegal(from, to) leaves every field of the board as it
\* was before the call.
C2_IsLegalLeavesBoardAsItWas ==
    last.op = "isLegal" => This = prev

(***************************************************************************)
(* C3                                                                      *)
(***************************************************************************)

\* C3: move() called with a move for which isLegal is false hands back an
\* empty array and changes no field.
C3_IllegalMoveIsNoOp ==
    (last.op = "move" /\ LegalBefore = "false") => RejectedMove

\* a move that leaves the mover's king attacked was passed to move()
C3_Witness ==
    /\ last.op = "move"
    /\ LegalBefore = "false"
    /\ prev.board[last.from.y][last.from.x] # Null

(***************************************************************************)
(* C4                                                                      *)
(***************************************************************************)

\* C4: a call of move() that applies a legal move flips the side to move
\* and adds exactly 1 to turnNumber.
C4_AppliedMoveFlipsTurnOnce ==
    (/\ last.op = "move"
     /\ LegalBefore = "true"
     /\ prev.board[last.from.y][last.from.x] # Null)
    => /\ turn # prev.turn
       /\ turn \in Colour
       /\ turnNumber = prev.turnNumber + 1

\* Black has just answered a move of White, both applied by move()
C4_Witness ==
    /\ AppliedMove
    /\ LegalBefore = "true"
    /\ prev.turn = "Black"
    /\ turn = "White"
    /\ turnNumber = 2

(***************************************************************************)
(* C5                                                                      *)
(***************************************************************************)

\* C5: in a game in which only offered moves were applied, the board holds
\* exactly one white king and exactly one black king.
C5_OneKingOfEachColour ==
    offeredOnly =>
        /\ Cardinality(KingSquares(This, "White")) = 1
        /\ Cardinality(KingSquares(This, "Black")) = 1

(***************************************************************************)
(* C6                                                                      *)
(***************************************************************************)

\* C6: each of the four castling rights only ever changes from true to
\* false: a right that is false stays false in the next state.
C6_CastlingRightsOnlyCleared ==
    [][/\ whiteCastleShort' => whiteCastleShort
       /\ whiteCastleLong' => whiteCastleLong
       /\ blackCastleShort' => blackCastleShort
       /\ blackCastleLong' => blackCastleLong]_vars

\* the white king is back on e1 with a rook on h1, after a move made while
\* White's rights were already cleared
C6_Witness ==
    /\ AppliedMove
    /\ ~prev.whiteCastleShort /\ ~prev.whiteCastleLong
    /\ ~whiteCastleShort /\ ~whiteCastleLong
    /\ is(board[0][4], "White", "King")
    /\ is(board[0][7], "White", "Rook")

(***************************************************************************)
(* C7                                                                      *)
(***************************************************************************)

\* the king on square k may castle short by the stated rule: right set,
\* squares between king and rook empty, king not attacked, and neither the
\* square it crosses nor the one it lands on attacked
ShortCastleAllowed(s, k) ==
    /\ castleShortOf(s, s.turn)
    /\ pieceAt(s, k.x + 1, k.y) = Null
    /\ pieceAt(s, k.x + 2, k.y) = Null
    /\ inCheck(s, s.turn) = "false"
    /\ isLegal(s, k.x, k.y, k.x + 1, k.y).ret = "true"
    /\ isLegal(s, k.x, k.y, k.x + 2, k.y).ret = "true"

\* the same for long castling; the b-file square must be empty but need
\* not be safe, the king does not cross it
LongCastleAllowed(s, k) ==
    /\ castleLongOf(s, s.turn)
    /\ pieceAt(s, k.x - 1, k.y) = Null
    /\ pieceAt(s, k.x - 2, k.y) = Null
    /\ pieceAt(s, k.x - 3, k.y) = Null
    /\ inCheck(s, s.turn) = "false"
    /\ isLegal(s, k.x, k.y, k.x - 1, k.y).ret = "true"
    /\ isLegal(s, k.x, k.y, k.x - 2, k.y).ret = "true"

\* C7: with legality enforced the generator offers the king of the side to
\* move its two-file castling move exactly when the right is set, the
\* squares between king and rook are empty and the king's square, the
\* square it crosses and the square it lands on are not attacked; whether
\* the b-file square is attacked plays no part in long castling.
C7_CastlingOfferedExactlyWhenAllowed ==
    (offeredOnly /\ ~Crashed) =>
        \A k \in KingSquares(This, turn) :
            LET offered == Range(possibleMoves(This, k.x, k.y, TRUE).moves)
            IN  /\ Square(k.x + 2, k.y) \in offered <=> ShortCastleAllowed(This, k)
                /\ Square(k.x - 2, k.y) \in offered <=> LongCastleAllowed(This, k)

(***************************************************************************)
(* C8                                                                      *)
(***************************************************************************)

\* C8: an applied castling move (the king of the side to move going two
\* files from its home square, offered by the generator) leaves the king on its destination, a rook
\* of the king's colour on the f-file (short) or d-file (long) of that
\* rank, the h-file or a-file corner of that rank empty, and hands back the
\* four squares king origin, king destination, rook destination, rook
\* origin.
C8_CastlingRelocatesKingAndRook ==
    (offeredOnly /\ AppliedMove /\ KingTwoFiles /\ last.from = KingHome(prev.turn)) =>
        LET short == last.to.x > last.from.x
            rookTo == Square(IF short THEN 5 ELSE 3, last.to.y)
            rookFrom == Square(IF short THEN 7 ELSE 0, last.to.y)
        IN  /\ is(board[last.to.y][last.to.x], prev.turn, "King")
            /\ is(board[rookTo.y][rookTo.x], prev.turn, "Rook")
            /\ board[rookFrom.y][rookFrom.x] = Null
            /\ last.kind = "array"
            /\ last.squares = <<last.from, last.to, rookTo, rookFrom>>

(***************************************************************************)
(* C9                                                                      *)
(***************************************************************************)

\* C9: a castling move passed to move() while the king's square or a square
\* of the king's path is attacked is rejected: empty result, nothing
\* changed.
C9_CastlingThroughAttackRejected ==
    (/\ KingTwoFiles
     /\ last.from = KingHome(prev.turn)
     /\ \/ inCheck(prev, prev.turn) = "true"
        \/ \E x \in KingPath :
             isLegal(prev, last.from.x, last.from.y, x, last.from.y).ret = "false")
    => RejectedMove

(***************************************************************************)
(* C10                                                                     *)
(***************************************************************************)

\* the last applied move was a pawn advancing two ranks
DoubleStep ==
    /\ AppliedMove
    /\ prev.board[last.from.y][last.from.x].type = "Pawn"
    /\ last.to.x = last.from.x
    /\ last.to.y - last.from.y \in {2, -2}

\* the grid after the en-passant capture by the pawn on square by, of the
\* pawn on square victim, onto square skipped
AfterEnPassant(s, by, skipped, victim) ==
    [s EXCEPT !.board =
        setAt(setAt(setAt(s.board, skipped.x, skipped.y, s.board[by.y][by.x]),
                    by.x, by.y, Null),
              victim.x, victim.y, Null)]

\* the move before the last one was a double step that landed on the
\* square beside the origin of the last move, which is a pawn capturing
\* onto the skipped square
EnPassantApplied ==
    /\ AppliedMove
    /\ Len(prev.moves) > 0
    /\ LET double == prev.moves[Len(prev.moves)]
       IN  /\ prev.board[double.to.y][double.to.x].type = "Pawn"
           /\ double.to.x = double.from.x
           /\ double.to.y - double.from.y \in {2, -2}
           /\ is(prev.board[last.from.y][last.from.x], prev.turn, "Pawn")
           /\ last.from.y = double.to.y
           /\ last.from.x - double.to.x \in {1, -1}
           /\ last.to = Square(double.to.x, (double.from.y + double.to.y) \div 2)

\* C10: right after a double step that lands beside an enemy pawn, the
\* generator offers that pawn the capture onto the skipped square whenever
\* the capture leaves its own king safe; once applied, the capturing pawn
\* stands on the skipped square, the square of the double-stepped pawn is
\* empty and is among the changed squares.
C10_EnPassantOfferedAndApplied ==
    /\ (offeredOnly /\ DoubleStep) =>
           \A dx \in {-1, 1} :
               LET by == Square(last.to.x + dx, last.to.y)
                   skipped == Square(last.to.x, (last.from.y + last.to.y) \div 2)
               IN  (/\ by.x \in Coord
                    /\ is(board[by.y][by.x], turn, "Pawn")
                    /\ inCheck(AfterEnPassant(This, by, skipped, last.to), turn) = "false")
                   => skipped \in Range(possibleMoves(This, by.x, by.y, TRUE).moves)
    /\ (offeredOnly /\ EnPassantApplied) =>
           LET victim == Square(last.to.x, last.from.y)
           IN  /\ is(board[last.to.y][last.to.x], prev.turn, "Pawn")
               /\ board[victim.y][victim.x] = Null
               /\ victim \in Range(last.squares)

\* the square on which the piece that stands on sq after all the played
\* moves stood after the first n of them
RECURSIVE StoodAt(_, _, _)
StoodAt(played, sq, n) ==
    IF n >= Len(played) THEN sq
    ELSE LET later == StoodAt(played, sq, n + 1)
         IN  IF played[n + 1].to = later THEN played[n + 1].from ELSE later

\* move number n of the game was a double step of the piece that now
\* stands on sq
DoubleStepOf(sq, n) ==
    /\ moves[n].to = StoodAt(moves, sq, n)
    /\ moves[n].to.x = moves[n].from.x
    /\ moves[n].to.y - moves[n].from.y \in {2, -2}

\* the generator offers the pawn on square by the diagonal step onto the
\* empty square skipped, which move() executes as the en-passant capture of
\* the enemy pawn on square victim
EnPassantOffered(by, skipped, victim) ==
    /\ victim.x \in Coord
    /\ skipped.y \in Coord
    /\ is(board[by.y][by.x], turn, "Pawn")
    /\ is(board[victim.y][victim.x], Opponent(turn), "Pawn")
    /\ board[skipped.y][skipped.x] = Null
    /\ Offers(possibleMoves(This, by.x, by.y, TRUE), skipped)

\* C11: en-passant eligibility lasts one ply: a pawn that double-stepped at
\* ply n is not offered as the victim of an en-passant capture at ply n + 3
\* or later, that is, once the game has n + 2 moves or more.
C11_EnPassantExpiresAfterOnePly ==
    (offeredOnly /\ ~Crashed) =>
        \A by \in AllSquares, dx \in {-1, 1} :
            EnPassantOffered(by, Square(by.x + dx, by.y + Forward(turn)),
                             Square(by.x + dx, by.y))
            => \A n \in 1..(Len(moves) - 2) :
                   ~DoubleStepOf(Square(by.x + dx, by.y), n)

\* the last call applied a move that is neither a capture nor a pawn move
QuietMove ==
    /\ AppliedMove
    /\ prev.board[last.from.y][last.from.x].type # "Pawn"
    /\ prev.board[last.to.y][last.to.x] = Null

\* C12: a quiet move applied while fiftyMoveRuleReached is false adds one to
\* the clock, and it sets fiftyMoveRuleReached exactly when the clock
\* reaches 100; so in a run of quiet moves that starts with the clock at 0
\* the flag is false after each of the first 99 and true after the 100th.
C12_FiftyMoveFlagAtHundredthQuietPly ==
    (offeredOnly /\ QuietMove /\ ~prev.fiftyMoveRuleReached) =>
        /\ fiftyMoveRule = prev.fiftyMoveRule + 1
        /\ fiftyMoveRuleReached = (fiftyMoveRule = 100)

\* the hundredth quiet move of a run has just set the flag
C12_Witness ==
    /\ offeredOnly
    /\ QuietMove
    /\ ~prev.fiftyMoveRuleReached
    /\ prev.fiftyMoveRule = 99
    /\ fiftyMoveRuleReached

\* the last call applied a capture or a move of a pawn, a promoting push
\* included
CaptureOrPawnMove ==
    /\ AppliedMove
    /\ \/ prev.board[last.from.y][last.from.x].type = "Pawn"
       \/ prev.board[last.to.y][last.to.x] # Null

\* C13: after every applied move the clock is 0 if the move was a capture
\* or a pawn move, a promoting push without capture included, and one more
\* than before otherwise.
C13_ClockCountsPliesSinceCaptureOrPawnMove ==
    (offeredOnly /\ AppliedMove) =>
        fiftyMoveRule = IF CaptureOrPawnMove THEN 0 ELSE prev.fiftyMoveRule + 1

\* some position of the game, the initial one included, has occurred three
\* times
OccurredThrice == \E position \in DOMAIN occurred : occurred[position] >= 3

\* C14: threefoldRepetition is true from the ply on which some position of
\* the game, the initial position included, occurs for the third time, and
\* it is false as long as no position has occurred three times.
C14_ThreefoldAtThirdOccurrence ==
    (offeredOnly /\ ~Crashed) => (threefoldRepetition <=> OccurredThrice)

\* C15: no step resets a draw flag: once fiftyMoveRuleReached is true it
\* stays true, and once threefoldRepetition is true it stays true, whatever
\* calls of move() follow.
C15_DrawFlagsAreSticky ==
    [][/\ fiftyMoveRuleReached => fiftyMoveRuleReached'
       /\ threefoldRepetition => threefoldRepetition']_vars

\* a move was applied to a board whose threefoldRepetition flag was set
C15_Witness ==
    /\ AppliedMove
    /\ prev.threefoldRepetition
    /\ threefoldRepetition
    /\ This # prev

\* C16: in every state, whatever calls of move() were accepted or rejected
\* before, turnNumber is the length of the moves list.
C16_TurnNumberIsLengthOfMoves == turnNumber = Len(moves)

\* a call of move() was rejected after others had been accepted
C16_Witness ==
    /\ RejectedMove
    /\ Len(moves) >= 4
    /\ turnNumber = Len(moves)

\* C17: a call of move() that rejects its move hands back an empty array,
\* and a call that applies its move, on whatever ply, hands back an array
\* whose first two entries are the origin and the destination.
C17_MoveReturnsChangedSquares ==
    (offeredOnly /\ last.op = "move" /\ ~Crashed) =>
        /\ last.kind = "array"
        /\ IF turnNumber = prev.turnNumber
           THEN last.squares = <<>>
           ELSE /\ Len(last.squares) >= 2
                /\ last.squares[1] = last.from
                /\ last.squares[2] = last.to

\* no piece of the side to move has a legal destination
NoLegalMove(s) ==
    \A sq \in AllSquares :
        s.board[sq.y][sq.x].colour = s.turn
        => possibleMoves(s, sq.x, sq.y, TRUE).moves = <<>>

\* C18: in every state in which ended() returns, it is true exactly when
\* fiftyMoveRuleReached is true, or threefoldRepetition is true, or
\* insufficientMaterial() is true, or no piece of the side to move has a
\* legal destination.
C18_EndedExactlyWhenDrawnOrNoMove ==
    LET answer == ended(This)
    IN  answer # "throw" =>
            (answer = "true"
             <=> \/ fiftyMoveRuleReached
                 \/ threefoldRepetition
                 \/ insufficientMaterial(This)
                 \/ NoLegalMove(This))

\* the game has ended by the lack of a legal move alone
C18_Witness ==
    /\ ended(This) = "true"
    /\ ~fiftyMoveRuleReached
    /\ ~threefoldRepetition
    /\ ~insufficientMaterial(This)
    /\ NoLegalMove(This)

\* the side to move has no legal move and its king is attacked
Checkmated(s) == NoLegalMove(s) /\ inCheck(s, s.turn) = "true"

\* the first reason that applies to a game that has ended, in the order
\* insufficient material, fifty-move rule, threefold repetition, checkmate,
\* stalemate
FirstReason(s) ==
    IF insufficientMaterial(s) THEN "Draw by insufficient material"
    ELSE IF s.fiftyMoveRuleReached THEN "Draw by fifty move rule"
    ELSE IF s.threefoldRepetition THEN "Draw by threefold repetition"
    ELSE IF Checkmated(s) THEN Opponent(s.turn) \o " wins by checkmate"
    ELSE "Draw by stalemate"

C20_CheckmateOrStalemate ==
    (offeredOnly /\ ~Crashed) =>
        /\ (/\ ~fiftyMoveRuleReached
            /\ ~threefoldRepetition
            /\ ~insufficientMaterial(This)
            /\ NoLegalMove(This)
            /\ inCheck(This, turn) # "throw")
           => endReason(This) = IF inCheck(This, turn) = "true"
                                THEN Opponent(turn) \o " wins by checkmate"
                                ELSE "Draw by stalemate"
        /\ uciMoves(This) = << <<"f", "2", "f", "3">>, <<"e", "7", "e", "5">>,
                               <<"g", "2", "g", "4">>, <<"d", "8", "h", "4">> >>
           => /\ NoLegalMove(This)
              /\ whiteInCheck(This) = "true"
              /\ endReason(This) = "Black wins by checkmate"

\* the game f2f3, e7e5, g2g4, d8h4 has been played and has ended in
\* checkmate
C20_Witness ==
    /\ offeredOnly
    /\ last.op = "move"
    /\ last.caller = "playGame"
    /\ Len(moves) = 4
    /\ moveToString(moves[4]) = <<"d", "8", "h", "4">>
    /\ NoLegalMove(This)
    /\ endReason(This) = "Black wins by checkmate"

\* the squares that hold a piece
Occupied(s) == {sq \in AllSquares : s.board[sq.y][sq.x] # Null}

\* the board holds one white king, one black king and nothing else
KingsOnly(s) ==
    /\ Cardinality(Occupied(s)) = 2
    /\ \E white \in Occupied(s), black \in Occupied(s) :
           /\ is(s.board[white.y][white.x], "White", "King")
           /\ is(s.board[black.y][black.x], "Black", "King")

\* C21: on a board that holds one white king, one black king and nothing
\* else, for either side to move, insufficientMaterial() answers true,
\* ended() answers true and endReason() answers 'Draw by insufficient
\* material'.
C21_BareKingsAreADraw ==
    (last.op \in {"insufficientMaterial", "ended", "endReason"} /\ KingsOnly(This)) =>
        last.kind = IF last.op = "endReason" THEN "Draw by insufficient material"
                    ELSE "true"

\* endReason() has answered on a board of two adjacent kings with Black to
\* move
C21_Witness ==
    /\ KingsOnly(This)
    /\ turn = "Black"
    /\ is(board[0][0], "White", "King")
    /\ is(board[1][1], "Black", "King")
    /\ last.op = "endReason"
    /\ last.kind = "Draw by insufficient material"

\* the number of pieces of the colour and the type
MaterialOf(s, colour, type) ==
    Cardinality({sq \in Occupied(s) : is(s.board[sq.y][sq.x], colour, type)})

\* the side has no piece beside its king
OnlyKing(s, colour) ==
    \A sq \in Occupied(s) :
        s.board[sq.y][sq.x].colour = colour => s.board[sq.y][sq.x].type = "King"

\* the side cannot give mate: no knight and no bishop, or one knight and no
\* bishop, or one bishop and no knight, or two knights and no bishop
\* against a lone king
SideInsufficient(s, colour) ==
    LET knights == MaterialOf(s, colour, "Knight")
        bishops == MaterialOf(s, colour, "Bishop")
    IN  \/ knights = 0 /\ bishops = 0
        \/ knights = 1 /\ bishops = 0
        \/ knights = 0 /\ bishops = 1
        \/ knights = 2 /\ bishops = 0 /\ OnlyKing(s, Opponent(colour))

\* the reference: false with a pawn, queen or rook on the board, otherwise
\* both sides insufficient
InsufficientReference(s) ==
    IF \E sq \in Occupied(s) : s.board[sq.y][sq.x].type \in {"Pawn", "Queen", "Rook"}
    THEN FALSE
    ELSE SideInsufficient(s, "White") /\ SideInsufficient(s, "Black")

\* C22: on every board with one king of each colour, insufficientMaterial()
\* answers as the reference does: false if a pawn, queen or rook is on the
\* board, otherwise true exactly when both sides are insufficient.
C22_InsufficientMaterialIsReference ==
    last.op = "insufficientMaterial" =>
        (last.kind = "true" <=> InsufficientReference(This))

\* insufficientMaterial() has answered false on a board of two white
\* knights against a black knight
C22_Witness ==
    /\ last.op = "insufficientMaterial"
    /\ last.kind = "false"
    /\ MaterialOf(This, "White", "Knight") = 2
    /\ MaterialOf(This, "Black", "Knight") = 1
    /\ Cardinality(Occupied(This)) = 5

\* the number of destinations possibleMoves(x, y, true) returns for the
\* piece on the square
Destinations(s, sq) == Len(possibleMoves(s, sq.x, sq.y, TRUE).moves)

\* C23: on the board built by generateDefault(), possibleMoves(x, y, true)
\* returns two destinations for each of the eight white pawns and for each
\* of the two white knights and none for any other white piece: 20 in all.
C23_TwentyMovesAtTheStart ==
    This = generateDefault =>
        LET movable == {sq \in AllSquares :
                           /\ board[sq.y][sq.x].colour = "White"
                           /\ board[sq.y][sq.x].type \in {"Pawn", "Knight"}}
        IN  /\ 2 * Cardinality(movable) = 20
            /\ \A sq \in AllSquares :
                   board[sq.y][sq.x].colour = "White" =>
                       /\ ~possibleMoves(This, sq.x, sq.y, TRUE).threw
                       /\ Destinations(This, sq) = IF sq \in movable THEN 2 ELSE 0

\* the new game, before any call: the pawn on e2 and the knight on g1 have
\* their two destinations
C23_Witness ==
    /\ This = generateDefault
    /\ last.op = "new"
    /\ Range(possibleMoves(This, 4, 1, TRUE).moves) = {Square(4, 2), Square(4, 3)}
    /\ Range(possibleMoves(This, 6, 0, TRUE).moves) = {Square(5, 2), Square(7, 2)}

\* the move strings of a string of boardStateUCI(), split at its spaces
RECURSIVE wordEnd(_, _)
wordEnd(str, i) ==
    IF i > Len(str) \/ str[i] = " " THEN i ELSE wordEnd(str, i + 1)

RECURSIVE splitFrom(_, _)
splitFrom(str, i) ==
    IF i > Len(str) THEN <<>>
    ELSE <<SubSeq(str, i, wordEnd(str, i) - 1)>> \o splitFrom(str, wordEnd(str, i) + 1)

split(str) == splitFrom(str, 1)

\* the board after performUCIMove of the first n strings, one after the
\* other, on the board of generateDefault()
RECURSIVE replay(_, _)
replay(ucis, n) ==
    IF n = 0 THEN generateDefault
    ELSE performUCIMove(replay(ucis, n - 1), ucis[n]).obj

\* the longest game that is replayed from the first move on
MaxReplay == 20

\* a fresh default board brought to the position of s: its grid, castling
\* rights, en-passant arrays and side to move
positionOnly(s) ==
    [generateDefault EXCEPT
       !.board = s.board,
       !.whiteCastleShort = s.whiteCastleShort,
       !.whiteCastleLong = s.whiteCastleLong,
       !.blackCastleShort = s.blackCastleShort,
       !.blackCastleLong = s.blackCastleLong,
       !.whiteEnPassant = s.whiteEnPassant,
       !.blackEnPassant = s.blackEnPassant,
       !.turn = s.turn]

\* the UCI string of the move of the last call
UCIOfLast == moveToString(Move(last.from, last.to, last.promotion))

\* C24: boardStateUCI() is the empty string on a new game; an applied move
\* appends its UCI string, after a single space if it is not the first, and
\* a rejected move leaves the string as it was; replaying the string move
\* by move with performUCIMove on a fresh default board gives the same
\* grid, side to move, castling rights and en-passant arrays.  Games of up
\* to MaxReplay moves are replayed from the first move on; for every game
\* the last string of boardStateUCI() is replayed on a fresh board in the
\* position before the last move, which gives the whole replay by
\* induction on the length of the game.
C24_BoardStateUCIReplays ==
    ~Crashed =>
        /\ last.op = "new" => boardStateUCI(This) = <<>>
        /\ last.op = "move" =>
               boardStateUCI(This) =
                   IF ~AppliedMove THEN boardStateUCI(prev)
                   ELSE IF prev.moves = <<>> THEN UCIOfLast
                   ELSE boardStateUCI(prev) \o <<" ">> \o UCIOfLast
        /\ LET ucis == split(boardStateUCI(This))
           IN  /\ Len(ucis) <= MaxReplay =>
                      boardStateHash(replay(ucis, Len(ucis))) = boardStateHash(This)
               /\ AppliedMove =>
                      boardStateHash(performUCIMove(positionOnly(prev), ucis[Len(ucis)]).obj)
                          = boardStateHash(This)

\* a game with a promotion has been played and its string ends with the
\* promotion letter
C24_Witness ==
    /\ AppliedMove
    /\ last.promotion = "Queen"
    /\ Len(moves) = 9
    /\ SubSeq(boardStateUCI(This), Len(boardStateUCI(This)) - 5, Len(boardStateUCI(This)))
           = <<" ", "h", "7", "h", "8", "q">>
    /\ split(boardStateUCI(This)) = uciMoves(This)

\* the last call applied a move of a pawn to the farthest rank of its
\* colour with one of the four promotion selectors
PromotingMove ==
    /\ AppliedMove
    /\ prev.board[last.from.y][last.from.x].type = "Pawn"
    /\ last.to.y = IF prev.board[last.from.y][last.from.x].colour = "White" THEN 7 ELSE 0
    /\ last.promotion \in {"Queen", "Rook", "Bishop", "Knight"}

\* C25: after a pawn move to the farthest rank of its colour is applied
\* with selector Queen, Rook, Bishop or Knight, the destination holds a
\* piece of that type and of the mover's colour, not a pawn.
C25_PromotionPlacesSelectedPiece ==
    PromotingMove =>
        /\ board[last.to.y][last.to.x].type = last.promotion
        /\ board[last.to.y][last.to.x].colour = prev.board[last.from.y][last.from.x].colour
        /\ board[last.to.y][last.to.x].type # "Pawn"

\* the white pawn on h7 has been pushed to h8 and promoted to a knight
C25_Witness ==
    /\ PromotingMove
    /\ offeredOnly
    /\ last.caller = "playGame"
    /\ last.promotion = "Knight"
    /\ last.to = Square(7, 7)
    /\ is(board[7][7], "White", "Knight")

\* the board on which the legality check of the last call of move() ran its
\* attack detection
PretendedBefore ==
    [prev EXCEPT !.board = pretend(prev.board, last.from, last.to)]

\* C26: attack detection on a board that holds no king of the colour asked
\* about ends in an error instead of an answer, and so does a call of
\* move() whose legality check runs on a board without a king of the side
\* to move.
C26_NoKingIsFatal ==
    /\ \A colour \in Colour :
           KingSquares(This, colour) = {} => inCheck(This, colour) = "throw"
    /\ (last.op = "move" /\ KingSquares(PretendedBefore, prev.turn) = {})
           => last.kind = "throw"

\* a measure of what is left of a game: the steps the pawns have left to
\* their farthest rank, the pieces, and the castling rights; every capture,
\* pawn move and castling lowers it
RECURSIVE PawnStepsFrom(_, _)
PawnStepsFrom(s, i) ==
    IF i >= 64 THEN 0
    ELSE LET sq == ScanSquare(i)
             piece == s.board[sq.y][sq.x]
             stepsLeft == IF piece.type # "Pawn" THEN 0
                          ELSE IF piece.colour = "White" THEN 7 - sq.y ELSE sq.y
         IN  stepsLeft + PawnStepsFrom(s, i + 1)

GameLeft(s) ==
    PawnStepsFrom(s, 0) + 2 * countPieces(s)
    + 3 * Cardinality({right \in {<<"whiteShort", s.whiteCastleShort>>,
                                  <<"whiteLong", s.whiteCastleLong>>,
                                  <<"blackShort", s.blackCastleShort>>,
                                  <<"blackLong", s.blackCastleLong>>} : right[2]})

\* C27: every game of offered moves ends.  At every ply ended() answers;
\* an applied move either adds one to the fifty-move clock without raising
\* the measure of what is left of the game, or lowers that measure, which
\* is never negative; and ended() is true once the clock has reached 100.
\* So ended() is true after finitely many plies.
C27_EveryGameEnds ==
    (offeredOnly /\ last.caller = "playGame" /\ ~Crashed) =>
        /\ ended(This) \in {"true", "false"}
        /\ fiftyMoveRule >= 100 => ended(This) = "true"
        /\ AppliedMove =>
               \/ GameLeft(This) < GameLeft(prev)
               \/ /\ GameLeft(This) = GameLeft(prev)
                  /\ fiftyMoveRule = prev.fiftyMoveRule + 1

\* the last call moved a pawn of colour two ranks ahead on file
DoubleStepped(colour, file) ==
    /\ is(prev.board[last.from.y][last.from.x], colour, "Pawn")
    /\ last.from.x = file
    /\ last.to.x = file
    /\ last.to.y - last.from.y = 2 * Forward(colour)

\* C28: after every applied move, an entry of either colour's en-passant
\* array is true only for the file of a pawn double step made by that very
\* move; every flag set by an earlier ply is false.
C28_EnPassantFlagsOnlyOfLastMove ==
    (offeredOnly /\ AppliedMove) =>
        \A file \in Coord :
            /\ whiteEnPassant[file] => DoubleStepped("White", file)
            /\ blackEnPassant[file] => DoubleStepped("Black", file)

\* a rook of colour stands on the corner of its back rank on file x
RookAtHome(s, colour, x) ==
    is(s.board[IF colour = "White" THEN 0 ELSE 7][x], colour, "Rook")

\* the last call applied a castling: a king went two files along its rank
CastledTowards(x) ==
    /\ AppliedMove
    /\ prev.board[last.from.y][last.from.x].type = "King"
    /\ last.to.y = last.from.y
    /\ last.to.x - last.from.x = IF x = 7 THEN 2 ELSE -2

\* C29: whenever a castling right is true, a rook of that colour stands on
\* the corresponding home corner (h1 white-short, a1 white-long, h8
\* black-short, a8 black-long), and a castling is applied only when the
\* rook of that corner was there.
C29_RightImpliesRookAtHome ==
    offeredOnly =>
        /\ whiteCastleShort => RookAtHome(This, "White", 7)
        /\ whiteCastleLong => RookAtHome(This, "White", 0)
        /\ blackCastleShort => RookAtHome(This, "Black", 7)
        /\ blackCastleLong => RookAtHome(This, "Black", 0)
        /\ \A x \in {0, 7} :
               CastledTowards(x) => RookAtHome(prev, prev.turn, x)

\* the four castling rights of a board, in the order white-short,
\* white-long, black-short, black-long
RightsOf(s) ==
    <<s.whiteCastleShort, s.whiteCastleLong, s.blackCastleShort, s.blackCastleLong>>

\* C30: a move of a rook away from its home corner clears exactly the
\* castling right of that corner and colour (a1 white-long, h1 white-short,
\* a8 black-long, h8 black-short) and leaves the other three rights as they
\* were.
C30_RookMoveClearsItsOwnRight ==
    LET RightOfCorner(colour, x) ==
            (IF colour = "White" THEN 0 ELSE 2) + (IF x = 7 THEN 1 ELSE 2)
        RookLeftHome(colour, x) ==
            /\ AppliedMove
            /\ RookAtHome(prev, colour, x)
            /\ prev.turn = colour
            /\ last.from = Square(x, IF colour = "White" THEN 0 ELSE 7)
    IN  offeredOnly =>
            \A colour \in Colour, x \in {0, 7} :
                RookLeftHome(colour, x) =>
                    \A i \in 1..4 :
                        RightsOf(This)[i] = IF i = RightOfCorner(colour, x)
                                            THEN FALSE ELSE RightsOf(prev)[i]

\* the last call applied a move of the king of colour
KingMoved(colour) ==
    /\ AppliedMove
    /\ is(prev.board[last.from.y][last.from.x], colour, "King")

\* C31: an applied king move, ordinary or castling, sets both castling
\* rights of the king's colour to false and leaves the two rights of the
\* opponent as they were.
C31_KingMoveClearsBothRights ==
    /\ KingMoved("White") =>
           /\ ~whiteCastleShort /\ ~whiteCastleLong
           /\ blackCastleShort = prev.blackCastleShort
           /\ blackCastleLong = prev.blackCastleLong
    /\ KingMoved("Black") =>
           /\ ~blackCastleShort /\ ~blackCastleLong
           /\ whiteCastleShort = prev.whiteCastleShort
           /\ whiteCastleLong = prev.whiteCastleLong

\* a castling was applied while the mover had both rights and the opponent
\* had one
C31_Witness ==
    /\ offeredOnly
    /\ \E x \in {0, 7} : CastledTowards(x)
    /\ castleShortOf(prev, prev.turn) /\ castleLongOf(prev, prev.turn)
    /\ castleShortOf(prev, Opponent(prev.turn)) \/ castleLongOf(prev, Opponent(prev.turn))

\* the move played last in game s was a double step of a pawn onto square sq
JustDoubleStepped(s, sq) ==
    /\ Len(s.moves) > 0
    /\ LET double == s.moves[Len(s.moves)]
       IN  /\ double.to = sq
           /\ double.from.x = sq.x
           /\ double.to.y - double.from.y \in {2, -2}
           /\ s.board[sq.y][sq.x].type = "Pawn"

\* C32: an en-passant capture that move() executes removes the enemy pawn
\* that double-stepped on the ply just before, and the generator offers as
\* the victim of an en-passant capture only the pawn that has just
\* double-stepped.
C32_EnPassantTakesTheDoubleStepper ==
    offeredOnly =>
        /\ (/\ AppliedMove
            /\ prev.board[last.from.y][last.from.x].type = "Pawn"
            /\ last.to.x # last.from.x
            /\ prev.board[last.to.y][last.to.x] = Null
            /\ prev.board[last.from.y][last.to.x] # Null
            /\ board[last.from.y][last.to.x] = Null)
               => JustDoubleStepped(prev, Square(last.to.x, last.from.y))
        /\ ~Crashed =>
               \A by \in AllSquares, dx \in {-1, 1} :
                   EnPassantOffered(by, Square(by.x + dx, by.y + Forward(turn)),
                                    Square(by.x + dx, by.y))
                   => JustDoubleStepped(This, Square(by.x + dx, by.y))

\* C33: an applied move changes only the en-passant array of the mover:
\* afterwards that array is true exactly at the origin file when the moved
\* piece is a pawn that advanced two ranks, and false everywhere else; the
\* array of the opponent is as it was.
C33_OnlyMoversEnPassantArrayChanges ==
    (offeredOnly /\ AppliedMove) =>
        /\ \A file \in Coord :
               enPassantOf(This, prev.turn)[file] <=> DoubleStepped(prev.turn, file)
        /\ enPassantOf(This, Opponent(prev.turn)) = enPassantOf(prev, Opponent(prev.turn))

\* a double step was answered by a move that is no double step, so that the
\* flag of the opponent is still set while the mover has none
C33_Witness ==
    /\ offeredOnly /\ AppliedMove
    /\ \A file \in Coord : ~enPassantOf(This, prev.turn)[file]
    /\ \E file \in Coord : enPassantOf(This, Opponent(prev.turn))[file]

\* the occurrence count that history holds for a fingerprint, 0 when it
\* holds none
CountIn(seen, hash) == IF historyHas(seen, hash) THEN seen[hash] ELSE 0

\* C34: after every applied move, the occurrence count that history holds
\* for the fingerprint of the resulting position is one more than before
\* the move (1 if it was absent), also on plies on which the fifty-move
\* clock is at 100 or above.
C34_HistoryCountsEveryPly ==
    AppliedMove =>
        CountIn(history, boardStateHash(This))
            = CountIn(prev.history, boardStateHash(This)) + 1

\* the squares of the board that the sliding piece on sq reaches: those
\* k steps along one of its directions with only empty squares before them,
\* that are empty or hold an enemy piece
SliderReach(s, sq) ==
    LET piece == s.board[sq.y][sq.x]
        diagonals == {-1, 1} \X {-1, 1}
        straights == {<<1, 0>>, <<-1, 0>>, <<0, 1>>, <<0, -1>>}
        directions == CASE piece.type = "Bishop" -> diagonals
                        [] piece.type = "Rook" -> straights
                        [] piece.type = "Queen" -> diagonals \cup straights
                        [] OTHER -> {}
        onBoard == {step \in directions \X (1..7) :
                       /\ sq.x + step[2] * step[1][1] \in Coord
                       /\ sq.y + step[2] * step[1][2] \in Coord}
        free == {step \in onBoard :
                    /\ \A j \in 1..(step[2] - 1) :
                           s.board[sq.y + j * step[1][2]][sq.x + j * step[1][1]] = Null
                    /\ s.board[sq.y + step[2] * step[1][2]][sq.x + step[2] * step[1][1]].colour
                           # piece.colour}
    IN  {Square(sq.x + step[2] * step[1][1], sq.y + step[2] * step[1][2]) : step \in free}

\* C35: for a bishop, rook or queen of either colour, possibleMoves(x, y,
\* false) returns, along each ray of the piece, the empty squares up to the
\* first occupied square, and that square iff it holds an enemy piece; it
\* returns each of them once and nothing else.
C35_SlidersStopAtFirstOccupiedSquare ==
    \A sq \in AllSquares :
        board[sq.y][sq.x].type \in {"Bishop", "Rook", "Queen"} =>
            LET offered == possibleMoves(This, sq.x, sq.y, FALSE)
                reach == SliderReach(This, sq)
            IN  /\ ~offered.threw
                /\ Range(offered.moves) = reach
                /\ Len(offered.moves) = Cardinality(reach)

\* the last move was a capture by a bishop, rook or queen that went two
\* squares or more, in a game of offered moves
C35_Witness ==
    /\ offeredOnly /\ AppliedMove
    /\ prev.board[last.from.y][last.from.x].type \in {"Bishop", "Rook", "Queen"}
    /\ prev.board[last.to.y][last.to.x] # Null
    /\ (last.to.x - last.from.x) \notin {-1, 0, 1} \/ (last.to.y - last.from.y) \notin {-1, 0, 1}
    /\ last.to \in SliderReach(prev, last.from)

\* the squares a pawn on sq may go to: one step ahead onto an empty square,
\* two steps ahead from its starting rank over an empty square onto an empty
\* square, and a step diagonally ahead onto an enemy piece or past an enemy
\* pawn beside it whose file is flagged in the opponent's en-passant array
PawnReach(s, sq) ==
    LET colour == s.board[sq.y][sq.x].colour
        enemy == Opponent(colour)
        ahead == sq.y + Forward(colour)
        twoAhead == sq.y + 2 * Forward(colour)
        one == IF s.board[ahead][sq.x] = Null THEN {Square(sq.x, ahead)} ELSE {}
        two == IF /\ sq.y = (IF colour = "White" THEN 1 ELSE 6)
                  /\ s.board[ahead][sq.x] = Null
                  /\ s.board[twoAhead][sq.x] = Null
               THEN {Square(sq.x, twoAhead)} ELSE {}
        diagonal == {Square(file, ahead) : file \in
                       {file \in {sq.x - 1, sq.x + 1} \cap Coord :
                           \/ s.board[ahead][file].colour = enemy
                           \/ /\ s.board[sq.y][file] = ChessPiece("Pawn", enemy)
                              /\ enPassantOf(s, enemy)[file]}}
    IN  one \cup two \cup diagonal

\* C36: for a pawn of either colour, possibleMoves(x, y, false) returns the
\* square one step ahead only if it is empty, the square two steps ahead
\* only from the starting rank with both squares ahead empty, a square
\* diagonally ahead as a capture only if it holds an enemy piece and as en
\* passant only if the square beside the pawn holds an enemy pawn whose file
\* is flagged in the opponent's array; it returns these squares and no other.
C36_PawnDestinations ==
    \A sq \in AllSquares :
        (board[sq.y][sq.x].type = "Pawn" /\ ~pawnThrows(This, sq.x, sq.y)) =>
            LET offered == possibleMoves(This, sq.x, sq.y, FALSE)
            IN  /\ ~offered.threw
                /\ Range(offered.moves) = PawnReach(This, sq)

\* in a game of offered moves a pawn on its starting rank has a piece right
\* ahead and an empty square behind that piece, and another pawn may capture
\* en passant
C36_Witness ==
    /\ offeredOnly
    /\ \E sq \in AllSquares :
           /\ board[sq.y][sq.x] = ChessPiece("Pawn", "White")
           /\ sq.y = 1
           /\ board[2][sq.x] # Null
           /\ board[3][sq.x] = Null
    /\ \E sq \in AllSquares, file \in Coord :
           /\ board[sq.y][sq.x] = ChessPiece("Pawn", turn)
           /\ file - sq.x \in {-1, 1}
           /\ board[sq.y][file] = ChessPiece("Pawn", Opponent(turn))
           /\ enPassantOf(This, Opponent(turn))[file]
           /\ board[sq.y + Forward(turn)][file] = Null
           /\ Square(file, sq.y + Forward(turn)) \in PawnReach(This, sq)

\* C37: move() applies a move only if the generator offers it: whenever
\* move(from, to) changes the board, from held a piece of the side to move
\* and to was among possibleMoves(from.x, from.y, true) of the state before
\* the call; every other pair of squares is rejected and nothing changes.
C37_OnlyOfferedMovesAreApplied ==
    LET offeredBefore ==
            /\ prev.board[last.from.y][last.from.x].colour = prev.turn
            /\ last.to \in Range(possibleMoves(prev, last.from.x, last.from.y, TRUE).moves)
    IN  (last.op = "move" /\ ~Crashed) =>
            /\ AppliedMove => offeredBefore
            /\ ~offeredBefore => RejectedMove

\* C38: the number of pieces never grows: after an applied move that the
\* generator offered, countPieces() is what it was before the move, or one
\* less when the move was a capture (en passant included); castling and
\* promotion add no piece.
C38_PiecesNeverIncrease ==
    LET captured ==
            \/ prev.board[last.to.y][last.to.x] # Null
            \/ /\ prev.board[last.from.y][last.from.x].type = "Pawn"
               /\ last.to.x # last.from.x
    IN  (offeredOnly /\ AppliedMove) =>
            countPieces(This) = countPieces(prev) - (IF captured THEN 1 ELSE 0)

\* C39: after a move applied through performUCIMove, with a UCI string of
\* four or five characters for a move the generator offers, no white pawn
\* stands on rank 8 and no black pawn on rank 1, also when the string of a
\* pawn move to the farthest rank has no promotion letter.
C39_NoPawnOnFarthestRank ==
    (offeredOnly /\ AppliedMove /\ last.caller = "playGame") =>
        \A x \in Coord :
            /\ ~is(board[7][x], "White", "Pawn")
            /\ ~is(board[0][x], "Black", "Pawn")

=============================================================================
